---- MODULE Spec2Model ----
(***************************************************************************)
(* Job scheduling and resilience layer of the arXiv batch converter.       *)
(*                                                                         *)
(*  - SpecPool : one ParallelProcessor.process_files run               *)
(*               (arxiv_parser/parallel_processor.py): the task queue,     *)
(*               the worker processes, the result queue and the            *)
(*               ProcessingStats aggregation, with worker death and        *)
(*               interrupt signals as environment steps.                   *)
(*  - Spec     : the batch orchestrator (batch_processor.py): discovery    *)
(*               scans, the persisted state file, the priority-ordered     *)
(*               backlog and the per-archive pipeline.                     *)
(***************************************************************************)
EXTENDS Integers, Sequences, FiniteSets, TLC

(***************************************************************************)
(* Bounds of the model.                                                    *)
(***************************************************************************)
\* number of archive names that can turn up in the source directory
MaxArchives == 3
\* most files one archive unpacks into
MaxPayload == 2
\* longest file_list handed to process_files
MaxItems == 2
\* largest num_workers
MaxWorkers == 2
\* number of files that come into the intake area while failures are handled
MaxFailed == 3
\* last second of the wall clock
MaxTime == 1
\* most lines the throughput monitor writes to its log
MaxTicks == 1
\* largest value of a ProcessingStats counter
MaxCount == 7
\* most outcome records in one collection
MaxRecords == 3
\* bits of a float's significand (53 in the IEEE double the code computes with)
MantissaBits == 2
\* longest duration list 1, 2, ..., n whose percentiles are read
MaxRamp == 10

VARIABLES
    \* ---- process_files / worker_process ----
    file_list,      \* the argument of process_files: a list of file names
    num_workers,    \* ParallelProcessor.num_workers
    file_queue,     \* multiprocessing.Queue of file names and None sentinels
    result_queue,   \* multiprocessing.Queue of outcome records
    workers,        \* self.workers: one record per started worker process
    stats,          \* self.stats: the ProcessingStats of the run
    main_pc,        \* position of process_files
    loop_i,         \* collected iterations of "for _ in range(len(file_list))"
    join_i,         \* index of the next worker to join
    interrupted,    \* the collection loop was left by KeyboardInterrupt/SystemExit
    taken,          \* history: how often each file name was dequeued by a worker
    emitted         \* history: how many outcome records were put for each name

VARIABLES
    \* ---- batch_processor ----
    source_dir,     \* the *.tar file names present in the scanned source directory
    STATE_FILE,     \* processing_state.json: whether it exists, its "files", and
                    \* whether a write of it was cut short (torn: not parseable)
    pending_tasks,  \* main's backlog: the sorted list initialize_state returned
    task_i,         \* position of main's "for filename, info in pending_tasks"
    pc,             \* position of batch_processor.main
    TEMP_TAR_DIR,   \* archives whose tar / expansion lies in temp_tar
    ARXIV_DIR,      \* work items lying in the intake area Arxiv
    raised,         \* the current iteration entered its "except Exception" branch
    pool_stats,     \* ProcessingStats of the current iteration's pool run, if any
    killed_after_commit, \* history: the entry whose iteration a kill cut short
                    \* between its status write and the finally block
    items_failed,   \* history: an item of an archive processed by this call of
                    \* main failed
    monitor,        \* the speed_monitor thread: off, sleep, sample, dead or
                    \* returned
    speed_log,      \* the lines of logs/speed.log
    retried,        \* history: the entries whose status an operator has set
                    \* back to pending in the state file
    tar_members,    \* the regular files the archive being staged holds, each
                    \* with the directories it lies in
    source_dir_path,\* the path of the directory main is called with
    stop_event,     \* main's threading.Event: TRUE once it is set
    after_stop      \* history: the lines the monitor appended to the log
                    \* after stop_event was set

VARIABLES
    \* ---- failure handling of work items (main.py, utils/file_system.py) ----
    SOURCE_DIR,     \* config.SOURCE_DIR, the intake area: the files lying in it
    OUTPUT_DIR,     \* config.OUTPUT_DIR: the output directories and whose they are
    FAILED_DIR,     \* config.FAILED_DIR, the quarantine: target name and file held
    fail_log,       \* the lines of failed/fail.log
    now,            \* int(time.time()): the wall clock in seconds
    handler,        \* per worker: where it is in handling the item it holds
    outcomes,       \* history: the outcome records emitted for each file
    quarantined,    \* history: how many shutil.move calls into the quarantine returned
    staged,         \* how many files have been put into the intake area so far
    measured        \* history: the time field of the record emitted for each
                    \* file whose converter call had timed out

failVars == <<SOURCE_DIR, OUTPUT_DIR, FAILED_DIR, fail_log, now, handler, outcomes,
              quarantined, staged, measured>>

VARIABLES
    \* ---- ProcessingStats on its own: the properties and the aggregation ----
    stat_mode,      \* what is being computed: a rate from counts, or two collections
    counts,         \* the counters a ProcessingStats is given
    rate_out,       \* the value its success_rate property returned, once read
    sample,         \* outcome records in the order they arrive in one run
    arrival,        \* the same records in the order they arrive in another run
    acc_a,          \* the ProcessingStats collecting sample
    acc_b,          \* the ProcessingStats collecting arrival
    acc_i,          \* how many records each of the two has collected
    report,         \* the properties of the two, once both are complete
    range_out       \* the value middle_80_percent_time_range returned, once read

statVars == <<stat_mode, counts, rate_out, sample, arrival, acc_a, acc_b, acc_i,
              report, range_out>>

batchVars == <<source_dir, source_dir_path, STATE_FILE, pending_tasks, task_i, pc,
               TEMP_TAR_DIR, ARXIV_DIR, raised, pool_stats, killed_after_commit,
               items_failed, monitor, speed_log, retried, tar_members, stop_event,
               after_stop>>

poolVars == <<file_list, num_workers, file_queue, result_queue, workers, stats,
              main_pc, loop_i, join_i, interrupted, taken, emitted>>

(***************************************************************************)
(* File names are sequences of their dot-separated components:             *)
(* <<"a","tar","gz">> is a.tar.gz.                                         *)
(***************************************************************************)

None == <<"None">>
NoItem == <<>>

\* config.py
SUPPORTED_PDF_EXTENSIONS == { "pdf" }
SUPPORTED_TEX_EXTENSIONS == { "gz", "tar.gz" }

\* pathlib: Path.suffix is the last dot-separated component, if there is a dot
Suffix(name) == IF Len(name) > 1 THEN name[Len(name)] ELSE ""

\* str.endswith('.tar.gz')
EndsWithTarGz(name) ==
    /\ Len(name) > 2
    /\ name[Len(name) - 1] = "tar"
    /\ name[Len(name)] = "gz"

\* main.get_file_type
get_file_type(name) ==
    IF Suffix(name) \in SUPPORTED_PDF_EXTENSIONS THEN "pdf"
    ELSE IF Suffix(name) \in SUPPORTED_TEX_EXTENSIONS \/ EndsWithTarGz(name) THEN "tex"
    ELSE "unknown"

(***************************************************************************)
(* ProcessingStats and the outcome records                                 *)
(***************************************************************************)
\* ProcessingStats(total_files = n)
NewStats(n) ==
    [ total_files      |-> n,
      processed_files  |-> 0,
      successful_files |-> 0,
      failed_files     |-> 0,
      skipped_files    |-> 0,
      end_time         |-> 0,
      processing_times |-> <<>> ]

\* time.time() - start_time, as far as the code tells durations apart: zero (the
\* clock did not advance) or positive
Elapsed == { 0, 1 }

\* what one call of the converter chain can do to a worker
Outcomes(name) ==
    IF get_file_type(name) = "tex" THEN { "ok", "fail", "raise" } ELSE { "none", "raise" }

\* worker_process, from the dequeued name to the record it puts: `outcome` is
\* what get_file_type / process_single_file_with_failover did ("raise": an
\* Exception), `elapsed` is time.time() - start_time
worker_result(name, outcome, elapsed) ==
    IF outcome = "raise"
    THEN [file_name |-> name, status |-> "failure", time |-> elapsed]
    ELSE IF get_file_type(name) = "pdf"
    THEN [file_name |-> name, status |-> "skipped", time |-> 0]
    ELSE IF get_file_type(name) = "tex"
    THEN [file_name |-> name,
          status    |-> IF outcome = "ok" THEN "success" ELSE "failure",
          time      |-> elapsed]
    ELSE [file_name |-> name, status |-> "skipped", time |-> 0]

\* a worker whose loop a converter's exception would leave
worker_crashes_on_raise(outcome) == IF outcome = "raise" THEN "crashed" ELSE "get"

\* lines 163-168: where the worker's loop goes after the item's try block; the
\* except clause turns any Exception into a failure record
worker_next_pc(outcome) == "get"

\* a collector that would book a skipped record as nothing and any other as a
\* failure
collect_drops_skipped(st, result) ==
    IF result.status = "skipped"
    THEN [st EXCEPT !.processed_files = @ + 1]
    ELSE [st EXCEPT !.processed_files = @ + 1, !.failed_files = @ + 1]

\* a collector that would count a failure as a failure and as skipped
collect_failure_twice(st, result) ==
    LET s1 == [st EXCEPT !.processed_files = @ + 1]
    IN  IF result.status = "success"
        THEN [s1 EXCEPT !.successful_files = @ + 1,
                        !.processing_times = Append(@, result.time)]
        ELSE IF result.status = "failure"
        THEN [s1 EXCEPT !.failed_files = @ + 1, !.skipped_files = @ + 1]
        ELSE [s1 EXCEPT !.skipped_files = @ + 1]

\* a collector that would record the time of every outcome record
collect_times_always(st, result) ==
    LET s1 == [st EXCEPT !.processed_files = @ + 1,
                         !.processing_times = Append(@, result.time)]
    IN  IF result.status = "success" THEN [s1 EXCEPT !.successful_files = @ + 1]
        ELSE IF result.status = "failure" THEN [s1 EXCEPT !.failed_files = @ + 1]
        ELSE [s1 EXCEPT !.skipped_files = @ + 1]

\* lines 207-219: the collection loop's body, one outcome record into the stats
collect_result(st, result) ==
    LET s1 == [st EXCEPT !.processed_files = @ + 1]
    IN  IF result.status = "success"
        THEN [s1 EXCEPT !.successful_files = @ + 1,
                        !.processing_times = Append(@, result.time)]
        ELSE IF result.status = "failure"
        THEN [s1 EXCEPT !.failed_files = @ + 1,
                        !.processing_times =
                            IF result.time > 0 THEN Append(@, result.time) ELSE @]
        ELSE IF result.status = "skipped"
        THEN [s1 EXCEPT !.skipped_files = @ + 1]
        ELSE s1

\* a get that would leave the head in the queue
queue_peek(q) == [item |-> Head(q), rest |-> q]

\* line 134, multiprocessing.Queue.get: the head leaves the queue with the get
queue_get(q) == [item |-> Head(q), rest |-> Tail(q)]

\* one sentinel more than there are workers
sentinels_one_more(n) == [i \in 1..(n + 1) |-> None]

\* one sentinel fewer than there are workers
sentinels_one_short(n) == [i \in 1..(n - 1) |-> None]

\* lines 225-226: one None for each of the n workers
Sentinels(n) == [i \in 1..n |-> None]

Alive(w) == workers[w].pc \in { "get", "work" }

\* a join(timeout=10) can run out on a worker that is converting an item or
\* that is blocked on an empty task queue; a worker with something to dequeue
\* dequeues it within the timeout
MayOutlastJoin(w) ==
    /\ Alive(w)
    /\ \/ workers[w].pc = "work"
       \/ file_queue = <<>>

(***************************************************************************)
(* ParallelProcessor.process_files                                         *)
(***************************************************************************)
\* the file names of the intake directory, in the order the listing yields them
PoolFileOrder == << <<"a", "tar", "gz">>, <<"b", "pdf">>, <<"d", "gz">>, <<"c", "txt">> >>

PoolFiles == { PoolFileOrder[i] : i \in DOMAIN PoolFileOrder }

Bump(f, name) == [f EXCEPT ![name] = @ + 1]

\* lines 190-202: fresh stats, every path into the task queue, the workers started
Submit ==
    /\ UNCHANGED <<batchVars, failVars, statVars>>
    /\ main_pc = "start"
    /\ stats' = NewStats(Len(file_list))
    /\ file_queue' = file_queue \o file_list
    /\ workers' = [i \in 1..num_workers |-> [pc |-> "get", item |-> NoItem]]
    /\ main_pc' = "collect"
    /\ UNCHANGED <<file_list, num_workers, result_queue, loop_i, join_i,
                   interrupted, taken, emitted>>

\* lines 205-219: one iteration of the collection loop; result_queue.get() blocks
\* while the result queue is empty
Collect ==
    /\ UNCHANGED <<batchVars, failVars, statVars>>
    /\ main_pc = "collect"
    /\ ~interrupted
    /\ loop_i < Len(file_list)
    /\ result_queue # <<>>
    /\ stats' = collect_result(stats, queue_get(result_queue).item)
    /\ result_queue' = queue_get(result_queue).rest
    /\ loop_i' = loop_i + 1
    /\ UNCHANGED <<file_list, num_workers, file_queue, workers, main_pc, join_i,
                   interrupted, taken, emitted>>

\* lines 220-222: KeyboardInterrupt / SystemExit while collecting: break
MainInterrupt ==
    /\ UNCHANGED <<batchVars, failVars, statVars>>
    /\ main_pc = "collect"
    /\ ~interrupted
    /\ loop_i < Len(file_list)
    /\ interrupted' = TRUE
    /\ UNCHANGED <<file_list, num_workers, file_queue, result_queue, workers, stats,
                   main_pc, loop_i, join_i, taken, emitted>>

\* lines 224-226: the loop is over (exhausted or broken): one None per worker
SendSentinels ==
    /\ UNCHANGED <<batchVars, failVars, statVars>>
    /\ main_pc = "collect"
    /\ loop_i = Len(file_list) \/ interrupted
    /\ file_queue' = file_queue \o Sentinels(num_workers)
    /\ main_pc' = "join"
    /\ join_i' = 1
    /\ UNCHANGED <<file_list, num_workers, result_queue, workers, stats, loop_i,
                   interrupted, taken, emitted>>

\* lines 229-231: worker.join(timeout=10) returns because the worker has ended
JoinEnded ==
    /\ UNCHANGED <<batchVars, failVars, statVars>>
    /\ main_pc = "join"
    /\ join_i <= Len(workers)
    /\ ~Alive(join_i)
    /\ join_i' = join_i + 1
    /\ UNCHANGED <<file_list, num_workers, file_queue, result_queue, workers, stats,
                   main_pc, loop_i, interrupted, taken, emitted>>

\* a shutdown that would leave a worker that outlasts the join running
left_running(p) == p

\* lines 231-233: is_alive() after the join timed out: terminate()
after_join_timeout(p) == "terminated"

\* lines 230-233: the join times out, the worker is alive: terminate()
JoinTimeout ==
    /\ UNCHANGED <<batchVars, failVars, statVars>>
    /\ main_pc = "join"
    /\ join_i <= Len(workers)
    /\ MayOutlastJoin(join_i)
    /\ workers' = [workers EXCEPT ![join_i].pc = after_join_timeout(@)]
    /\ join_i' = join_i + 1
    /\ UNCHANGED <<file_list, num_workers, file_queue, result_queue, stats,
                   main_pc, loop_i, interrupted, taken, emitted>>

\* lines 235-237: end_time fixed, the stats returned
Finish ==
    /\ UNCHANGED <<batchVars, failVars, statVars>>
    /\ main_pc = "join"
    /\ join_i > Len(workers)
    /\ stats' = [stats EXCEPT !.end_time = 1]
    /\ main_pc' = "returned"
    /\ UNCHANGED <<file_list, num_workers, file_queue, result_queue, workers,
                   loop_i, join_i, interrupted, taken, emitted>>

(***************************************************************************)
(* worker_process                                                          *)
(***************************************************************************)
\* lines 134-142: file_queue.get(); None ends the loop
Get(w) ==
    /\ UNCHANGED <<batchVars, failVars, statVars>>
    /\ workers[w].pc = "get"
    /\ file_queue # <<>>
    /\ LET got == queue_get(file_queue)
       IN  /\ file_queue' = got.rest
           /\ IF got.item = None
              THEN /\ workers' = [workers EXCEPT ![w].pc = "exited"]
                   /\ taken' = taken
              ELSE /\ workers' = [workers EXCEPT ![w] = [pc |-> "work", item |-> got.item]]
                   /\ taken' = Bump(taken, got.item)
    /\ UNCHANGED <<file_list, num_workers, result_queue, stats, main_pc, loop_i,
                   join_i, interrupted, emitted>>

\* lines 144-168: classify, convert, result_queue.put(result), back to the loop head
Process(w) ==
    /\ UNCHANGED <<batchVars, failVars, statVars>>
    /\ workers[w].pc = "work"
    /\ \E outcome \in Outcomes(workers[w].item), elapsed \in Elapsed :
          /\ result_queue' =
                Append(result_queue, worker_result(workers[w].item, outcome, elapsed))
          /\ workers' = [workers EXCEPT ![w] = [pc |-> worker_next_pc(outcome),
                                                item |-> NoItem]]
    /\ emitted' = Bump(emitted, workers[w].item)
    /\ UNCHANGED <<file_list, num_workers, file_queue, stats, main_pc, loop_i,
                   join_i, interrupted, taken>>

\* lines 170-171: KeyboardInterrupt / SystemExit in the worker: break
WorkerInterrupt(w) ==
    /\ UNCHANGED <<batchVars, failVars, statVars>>
    /\ Alive(w)
    /\ workers' = [workers EXCEPT ![w].pc = "interrupted"]
    /\ UNCHANGED <<file_list, num_workers, file_queue, result_queue, stats, main_pc,
                   loop_i, join_i, interrupted, taken, emitted>>

\* the worker process dies (killed, out of memory, a crash of the converter's
\* native code): it keeps what it held and never runs again
Die(w) ==
    /\ UNCHANGED <<batchVars, failVars, statVars>>
    /\ Alive(w)
    /\ workers' = [workers EXCEPT ![w].pc = "dead"]
    /\ UNCHANGED <<file_list, num_workers, file_queue, result_queue, stats, main_pc,
                   loop_i, join_i, interrupted, taken, emitted>>

\* the steps the program takes by itself
PoolStep ==
    \/ Submit
    \/ Collect
    \/ SendSentinels
    \/ JoinEnded
    \/ JoinTimeout
    \/ Finish
    \/ \E w \in DOMAIN workers : Get(w)
    \/ \E w \in DOMAIN workers : Process(w)

\* the steps of its environment
PoolEnv ==
    \/ MainInterrupt
    \/ \E w \in DOMAIN workers : WorkerInterrupt(w)
    \/ \E w \in DOMAIN workers : Die(w)

\* the lists of at most n of these names, from position i on, in that order
RECURSIVE ListsFrom(_, _)
ListsFrom(i, n) ==
    IF n = 0 \/ i > Len(PoolFileOrder) THEN { <<>> }
    ELSE ListsFrom(i + 1, n) \cup
         { <<PoolFileOrder[i]>> \o l : l \in ListsFrom(i + 1, n - 1) }

PoolInit ==
    /\ file_list \in ListsFrom(1, MaxItems)
    /\ num_workers \in 0..MaxWorkers
    /\ file_queue = <<>>
    /\ result_queue = <<>>
    /\ workers = <<>>
    /\ stats = NewStats(0)
    /\ main_pc = "start"
    /\ loop_i = 0
    /\ join_i = 0
    /\ interrupted = FALSE
    /\ taken = [f \in PoolFiles |-> 0]
    /\ emitted = [f \in PoolFiles |-> 0]

(***************************************************************************)
(* batch_processor: archive names and their priority                       *)
(*                                                                         *)
(* An archive name is the prefix before the two numeric groups and the     *)
(* digits of the groups: arXiv_src_2201_005.tar is                         *)
(* [prefix |-> "src", period |-> <<2,2,0,1>>, seq |-> <<0,0,5>>].          *)
(***************************************************************************)
TarOrder ==
    << [prefix |-> "src",    period |-> <<2, 2, 0, 1>>, seq |-> <<0, 0, 5>>],
       [prefix |-> "src",    period |-> <<2, 2, 0, 3>>, seq |-> <<0, 0, 1>>],
       [prefix |-> "backup", period |-> <<2, 2, 0, 4>>, seq |-> <<>>],
       [prefix |-> "src",    period |-> <<2, 2, 0, 1>>, seq |-> <<0, 7, 1>>],
       [prefix |-> "notes",  period |-> <<>>,           seq |-> <<>>] >>

TarNames == { TarOrder[i] : i \in 1..MaxArchives }

\* int() of a string of decimal digits
RECURSIVE DigitsToInt(_)
DigitsToInt(ds) ==
    IF ds = <<>> THEN 0
    ELSE 10 * DigitsToInt(SubSeq(ds, 1, Len(ds) - 1)) + ds[Len(ds)]

\* re.search(r'src_(\d+)_(\d+)\.tar', filename)
MatchesPattern(filename) ==
    /\ filename.prefix = "src"
    /\ filename.period # <<>>
    /\ filename.seq # <<>>

\* a priority that would add the two groups as numbers
priority_adds_groups(filename) ==
    IF MatchesPattern(filename)
    THEN DigitsToInt(filename.period) + DigitsToInt(filename.seq)
    ELSE 0

\* lines 26-32: int(f"{match.group(1)}{match.group(2)}"), 0 without a match
get_priority_from_filename(filename) ==
    IF MatchesPattern(filename)
    THEN DigitsToInt(filename.period \o filename.seq)
    ELSE 0

(***************************************************************************)
(* batch_processor.initialize_state                                        *)
(***************************************************************************)
\* line 46, str(p) for p in source_dir.glob("*.tar"): the path of a file in
\* the directory main is called with
SourcePath(filename) == [dir |-> source_dir_path, name |-> filename]

\* the archive is where the store says it is
AtStoredPath(e) == e.path.dir = source_dir_path /\ e.path.name \in source_dir

Names(files) == { files[i].name : i \in DOMAIN files }

NewEntry(filename) ==
    [ name     |-> filename,
      path     |-> SourcePath(filename),
      status   |-> "pending",
      priority |-> get_priority_from_filename(filename) ]

\* lines 38-43: the stored "files", {} when there is no state file
LoadFiles(file) == IF file.exists THEN file.files ELSE <<>>

\* a scan that would build the store anew from the listing
RECURSIVE rescan_rebuilds(_, _)
rescan_rebuilds(files, found) ==
    IF found = <<>> THEN <<>>
    ELSE <<NewEntry(Head(found))>> \o rescan_rebuilds(files, Tail(found))

\* lines 49-56: the names the glob found, in the order it yielded them, each
\* added unless the store has it
RECURSIVE add_new_files(_, _)
add_new_files(files, found) ==
    IF found = <<>> THEN files
    ELSE add_new_files(
             IF Head(found) \in Names(files) THEN files
             ELSE Append(files, NewEntry(Head(found))),
             Tail(found))

\* a backlog that keeps every stored entry, whatever its status
pending_all(files) == files

\* lines 64-67: the entries whose status is pending
PendingOf(files) == SelectSeq(files, LAMBDA e : e.status = "pending")

\* list.sort(key = priority, reverse = True): stable, largest first
RECURSIVE InsertDesc(_, _)
InsertDesc(x, sorted) ==
    IF sorted = <<>> THEN <<x>>
    ELSE IF Head(sorted).priority >= x.priority
         THEN <<Head(sorted)>> \o InsertDesc(x, Tail(sorted))
         ELSE <<x>> \o sorted

\* the same sort, smallest first
RECURSIVE InsertAsc(_, _)
InsertAsc(x, sorted) ==
    IF sorted = <<>> THEN <<x>>
    ELSE IF Head(sorted).priority <= x.priority
         THEN <<Head(sorted)>> \o InsertAsc(x, Tail(sorted))
         ELSE <<x>> \o sorted

RECURSIVE sort_ascending(_)
sort_ascending(tasks) ==
    IF tasks = <<>> THEN <<>>
    ELSE InsertAsc(tasks[Len(tasks)], sort_ascending(SubSeq(tasks, 1, Len(tasks) - 1)))

\* line 69: pending_tasks.sort(key = priority, reverse = True)
RECURSIVE sort_by_priority(_)
sort_by_priority(tasks) ==
    IF tasks = <<>> THEN <<>>
    ELSE InsertDesc(tasks[Len(tasks)], sort_by_priority(SubSeq(tasks, 1, Len(tasks) - 1)))

\* the orders in which a glob can yield a set of names
RECURSIVE Orders(_)
Orders(S) ==
    IF S = {} THEN { <<>> }
    ELSE UNION { { <<x>> \o l : l \in Orders(S \ {x}) } : x \in S }

\* line 46: the listings of the directory that differ for the scan: the names
\* the store lacks in every order, and the stored names that are present
\* (which the scan skips, wherever they come in the listing)
Listings(dir, files) ==
    LET known == SelectSeq([i \in DOMAIN files |-> files[i].name],
                           LAMBDA f : f \in dir)
    IN  { new \o known : new \in Orders(dir \ Names(files)) }

\* a status step that would write the status into every entry
set_status_all(files, filename, status) ==
    [i \in DOMAIN files |-> [files[i] EXCEPT !.status = status]]

\* lines 174-180 and 187-191: read the file, set one status, write the file

set_status(files, filename, status) ==
    [i \in DOMAIN files |->
        IF files[i].name = filename THEN [files[i] EXCEPT !.status = status]
        ELSE files[i]]

\* the status the state file holds for a name
StatusIn(file, filename) ==
    LET hits == SelectSeq(LoadFiles(file), LAMBDA e : e.name = filename)
    IN  IF hits = <<>> THEN "absent" ELSE hits[1].status

StatusOf(filename) == StatusIn(STATE_FILE, filename)

(***************************************************************************)
(* batch_processor.main                                                    *)
(***************************************************************************)
Current == pending_tasks[task_i]

\* a clear_directory that would leave the directory as it is
clear_directory_keeps(directory) == directory

\* lines 73-82: what is left of a directory when clear_directory returns
clear_directory(directory) == {}

\* a cleanup that would run only after an iteration that raised nothing
cleanup_on_success_only(directory, abnormal) ==
    IF abnormal THEN directory ELSE clear_directory(directory)

\* lines 192-195: the finally block clears the directory whatever the
\* iteration's outcome
cleanup_after(directory, abnormal) == clear_directory(directory)

\* an iteration that would start without step a
workspace_reset_skipped(directory) == directory

\* lines 140-143, step a of an iteration: the directory cleared before staging
workspace_reset(directory) == clear_directory(directory)

\* main is not running: never called, returned at line 122 with nothing
\* pending, returned after its loop, left by an exception or by
\* KeyboardInterrupt, or its process was killed
Resting == pc \in { "idle", "nothing_pending", "done", "aborted", "interrupted",
                    "killed" }

\* lines 202-235, the script's __main__ block: main's return value is not
\* used and sys.exit is not called, so the process exits with 0 when main
\* returns; an exception or KeyboardInterrupt that leaves main, or a kill,
\* ends it with a non-zero status
exit_code(p) == IF p \in { "nothing_pending", "done" } THEN 0 ELSE 1

\* lines 104-130: the scan, the state file rewritten, the backlog; return at
\* line 122 when nothing is pending
MainStart ==
    /\ UNCHANGED <<poolVars, failVars, statVars>>
    /\ Resting
    /\ ~STATE_FILE.torn
    /\ \E found \in Listings(source_dir, LoadFiles(STATE_FILE)) :
          LET files == add_new_files(LoadFiles(STATE_FILE), found)
              tasks == sort_by_priority(PendingOf(files))
          IN  /\ STATE_FILE' = [exists |-> TRUE, files |-> files, torn |-> FALSE]
              /\ IF tasks = <<>>
                 THEN /\ pc' = "nothing_pending" /\ pending_tasks' = <<>> /\ task_i' = 0
                      /\ killed_after_commit' = <<>>
                 ELSE /\ pc' = "stage" /\ pending_tasks' = tasks /\ task_i' = 1
                      /\ UNCHANGED killed_after_commit
    /\ raised' = FALSE
    /\ pool_stats' = <<>>
    /\ items_failed' = FALSE
    /\ monitor' = IF pc' = "stage" THEN "sleep" ELSE "off"
    /\ stop_event' = FALSE
    /\ after_stop' = 0
    /\ UNCHANGED <<source_dir, source_dir_path, TEMP_TAR_DIR, ARXIV_DIR, speed_log,
                   retried, tar_members>>

\* lines 139-167: clear both directories, copy the tar from its stored path,
\* expand it, move the payload into the intake area; any of it can raise
Stage ==
    /\ UNCHANGED <<poolVars, failVars, statVars>>
    /\ pc = "stage"
    /\ pool_stats' = <<>>
    /\ \/ \* lines 142-143: the intake area is cleared, then clear_directory
          \* raises on what an earlier run left in temp_tar
          /\ TEMP_TAR_DIR # {}
          /\ ARXIV_DIR' = workspace_reset(ARXIV_DIR)
          /\ UNCHANGED TEMP_TAR_DIR
          /\ raised' = TRUE
          /\ pc' = "handler"
       \/ \* shutil.copy raises (always, when the archive is gone from its path)
          /\ TEMP_TAR_DIR' = workspace_reset(TEMP_TAR_DIR)
          /\ ARXIV_DIR' = workspace_reset(ARXIV_DIR)
          /\ raised' = TRUE
          /\ pc' = "handler"
       \/ \* tarfile.open / extractall raises
          /\ AtStoredPath(Current)
          /\ TEMP_TAR_DIR' = workspace_reset(TEMP_TAR_DIR) \cup { Current.name }
          /\ ARXIV_DIR' = workspace_reset(ARXIV_DIR)
          /\ raised' = TRUE
          /\ pc' = "handler"
       \/ \* staged: the archive held n files one directory deep
          /\ AtStoredPath(Current)
          /\ \E n \in 0..MaxPayload :
                ARXIV_DIR' = workspace_reset(ARXIV_DIR)
                                \cup { <<Current.name, k>> : k \in 1..n }
          /\ TEMP_TAR_DIR' = workspace_reset(TEMP_TAR_DIR) \cup { Current.name }
          /\ raised' = FALSE
          /\ pc' = "pool"
    /\ UNCHANGED <<source_dir, source_dir_path, STATE_FILE, pending_tasks, task_i,
                   killed_after_commit, items_failed, monitor, speed_log, retried,
                   tar_members, stop_event, after_stop>>

\* n outcome records of one status, as the workers put them
Records(n, status) ==
    [i \in 1..n |-> [file_name |-> i, status |-> status,
                     time |-> IF status = "skipped" THEN 0 ELSE 1]]

\* the collection loop over a sequence of records
RECURSIVE CollectAll(_, _)
CollectAll(st, records) ==
    IF records = <<>> THEN st
    ELSE CollectAll(collect_result(st, Head(records)), Tail(records))

\* a pool run whose quarantine steps would mark the archive in the state file
pool_marks_archive(file, filename, failures) ==
    IF failures > 0
    THEN [file EXCEPT !.files = set_status(@, filename, "failed")]
    ELSE file

\* the state file after a pool run over the archive: neither
\* run_parallel_processing and process_files nor worker_process and the
\* quarantine steps (move_failed_file, log_failed_file,
\* cleanup_failed_output_directory) open STATE_FILE, whatever the run counts
store_after_pool(file, filename, failures) == file

\* lines 169-172 and run_parallel_processing: no pool run on an empty intake
\* area; otherwise one process_files run over its files, every record
\* collected: s items succeed, f fail and leave the intake area for
\* quarantine, the others are skipped; or the call raises
RunPool ==
    /\ UNCHANGED <<poolVars, failVars, statVars>>
    /\ pc = "pool"
    /\ \/ /\ ARXIV_DIR = {}
          /\ pc' = "commit"
          /\ UNCHANGED <<STATE_FILE, ARXIV_DIR, raised, pool_stats, items_failed>>
       \/ /\ ARXIV_DIR # {}
          /\ LET n == Cardinality(ARXIV_DIR)
             IN  \E s \in 0..n : \E f \in 0..(n - s) :
                    /\ pool_stats' =
                          << [CollectAll(NewStats(n),
                                         Records(s, "success") \o Records(f, "failure")
                                             \o Records(n - s - f, "skipped"))
                                 EXCEPT !.end_time = 1] >>
                    /\ ARXIV_DIR' = { it \in ARXIV_DIR : it[2] <= n - f }
                    /\ items_failed' = (items_failed \/ f > 0)
                    /\ STATE_FILE' = store_after_pool(STATE_FILE, Current.name, f)
          /\ pc' = "commit"
          /\ UNCHANGED raised
       \/ /\ raised' = TRUE
          /\ pc' = "handler"
          /\ UNCHANGED <<STATE_FILE, ARXIV_DIR, pool_stats, items_failed>>
    /\ UNCHANGED <<source_dir, source_dir_path, pending_tasks, task_i, TEMP_TAR_DIR,
                   killed_after_commit, monitor, speed_log, retried, tar_members,
                   stop_event, after_stop>>

\* a status that would follow the pool run's failure count
status_from_item_failures(pool) ==
    IF pool # <<>> /\ pool[1].failed_files > 0 THEN "failed" ELSE "completed"

\* a status that would mark an archive without a pool run as failed
status_fails_without_pool(pool) == IF pool = <<>> THEN "failed" ELSE "completed"

\* line 178: the status step f writes, "completed" whatever the pool run counted
commit_status(pool) == "completed"

\* run_parallel_processing, lines 258-262: the report is written from the
\* ProcessingStats that process_files returned
ReportWritten == pool_stats # <<>>

\* lines 174-182
Commit ==
    /\ UNCHANGED <<poolVars, failVars, statVars>>
    /\ pc = "commit"
    /\ STATE_FILE' = [STATE_FILE EXCEPT
                         !.files = set_status(@, Current.name, commit_status(pool_stats))]
    /\ pc' = "cleanup"
    /\ UNCHANGED <<source_dir, source_dir_path, pending_tasks, task_i, TEMP_TAR_DIR,
                   ARXIV_DIR, raised, pool_stats, killed_after_commit, items_failed,
                   monitor, speed_log, retried, tar_members, stop_event, after_stop>>

\* lines 184-191
Handler ==
    /\ UNCHANGED <<poolVars, failVars, statVars>>
    /\ pc = "handler"
    /\ STATE_FILE' = [STATE_FILE EXCEPT
                         !.files = set_status(@, Current.name, "failed")]
    /\ pc' = "cleanup"
    /\ UNCHANGED <<source_dir, source_dir_path, pending_tasks, task_i, TEMP_TAR_DIR,
                   ARXIV_DIR, raised, pool_stats, killed_after_commit, items_failed,
                   monitor, speed_log, retried, tar_members, stop_event, after_stop>>

\* where the loop goes after the finally block of an iteration
next_pc(i, n) == IF i < n THEN "stage" ELSE "done"

\* lines 192-200: the finally block, then the next entry or the end of main
\* (with which main's local variables are gone)
Cleanup ==
    /\ UNCHANGED <<poolVars, failVars, statVars>>
    /\ pc = "cleanup"
    /\ TEMP_TAR_DIR' = cleanup_after(TEMP_TAR_DIR, raised)
    /\ ARXIV_DIR' = cleanup_after(ARXIV_DIR, raised)
    /\ pc' = next_pc(task_i, Len(pending_tasks))
    /\ IF pc' = "stage"
       THEN /\ task_i' = task_i + 1
            /\ UNCHANGED <<pending_tasks, killed_after_commit, items_failed, monitor>>
       ELSE /\ task_i' = 0 /\ pending_tasks' = <<>> /\ killed_after_commit' = <<>>
            /\ items_failed' = FALSE
            /\ monitor' = "off"
    /\ raised' = FALSE
    /\ pool_stats' = <<>>
    /\ UNCHANGED <<source_dir, source_dir_path, STATE_FILE, speed_log, retried,
                   tar_members, stop_event, after_stop>>

\* lines 192-195 have no handler of their own: clear_directory(TEMP_TAR_DIR)
\* raising in the finally block (an entry rmtree or unlink cannot delete)
\* leaves the loop and main with the exception, the two directories as they are
CleanupRaises ==
    /\ UNCHANGED <<poolVars, failVars, statVars>>
    /\ pc \in { "cleanup", "unwind" }
    /\ TEMP_TAR_DIR # {}
    /\ UNCHANGED <<TEMP_TAR_DIR, ARXIV_DIR>>
    /\ pc' = "aborted"
    /\ task_i' = 0
    /\ pending_tasks' = <<>>
    /\ raised' = FALSE
    /\ pool_stats' = <<>>
    /\ killed_after_commit' = <<>>
    /\ items_failed' = FALSE
    /\ monitor' = "off"
    /\ UNCHANGED <<source_dir, source_dir_path, STATE_FILE, speed_log, retried,
                   tar_members, stop_event, after_stop>>

\* KeyboardInterrupt reaches main inside an iteration: "except Exception" does
\* not catch it, the finally block of lines 192-195 runs with it pending
Interrupt ==
    /\ UNCHANGED <<poolVars, failVars, statVars>>
    /\ pc \in { "stage", "pool", "commit", "handler" }
    /\ pc' = "unwind"
    /\ UNCHANGED <<source_dir, source_dir_path, STATE_FILE, pending_tasks, task_i,
                   TEMP_TAR_DIR, ARXIV_DIR, raised, pool_stats, killed_after_commit,
                   items_failed, monitor, speed_log, retried, tar_members, stop_event,
                   after_stop>>

\* lines 192-200 with KeyboardInterrupt pending: both directories cleared, then
\* the interrupt leaves the loop and main
Unwind ==
    /\ UNCHANGED <<poolVars, failVars, statVars>>
    /\ pc = "unwind"
    /\ TEMP_TAR_DIR' = cleanup_after(TEMP_TAR_DIR, TRUE)
    /\ ARXIV_DIR' = cleanup_after(ARXIV_DIR, TRUE)
    /\ pc' = "interrupted"
    /\ task_i' = 0
    /\ pending_tasks' = <<>>
    /\ raised' = FALSE
    /\ pool_stats' = <<>>
    /\ killed_after_commit' = <<>>
    /\ items_failed' = FALSE
    /\ monitor' = "off"
    /\ UNCHANGED <<source_dir, source_dir_path, STATE_FILE, speed_log, retried,
                   tar_members, stop_event, after_stop>>

\* main is inside its loop
InLoop == pc \in { "stage", "pool", "commit", "handler", "cleanup", "unwind" }

\* the orchestrator's process is killed between two steps of an iteration:
\* nothing of main runs any more, files and directories stay as they are
Kill ==
    /\ UNCHANGED <<poolVars, failVars, statVars>>
    /\ InLoop
    /\ killed_after_commit' =
          IF pc = "cleanup" /\ ~raised THEN << Current.name >> ELSE <<>>
    /\ pc' = "killed"
    /\ task_i' = 0
    /\ pending_tasks' = <<>>
    /\ raised' = FALSE
    /\ pool_stats' = <<>>
    /\ items_failed' = FALSE
    /\ monitor' = "off"
    /\ UNCHANGED <<source_dir, source_dir_path, STATE_FILE, TEMP_TAR_DIR, ARXIV_DIR,
                   speed_log, retried, tar_members, stop_event, after_stop>>

\* lines 59-60, 179-180 and 190-191: open(STATE_FILE, 'w') truncates the file,
\* json.dump then writes it piece by piece; the process is killed in between
KillDuringWrite ==
    /\ UNCHANGED <<poolVars, failVars, statVars>>
    /\ \/ Resting /\ ~STATE_FILE.torn
       \/ pc \in { "commit", "handler" }
    /\ STATE_FILE' = [exists |-> TRUE, files |-> <<>>, torn |-> TRUE]
    /\ pc' = "killed"
    /\ task_i' = 0
    /\ pending_tasks' = <<>>
    /\ raised' = FALSE
    /\ pool_stats' = <<>>
    /\ killed_after_commit' = <<>>
    /\ items_failed' = FALSE
    /\ monitor' = "off"
    /\ UNCHANGED <<source_dir, source_dir_path, TEMP_TAR_DIR, ARXIV_DIR, speed_log,
                   retried, tar_members, stop_event, after_stop>>

\* lines 39-41: json.load raises on a state file that is not a JSON document;
\* initialize_state has no handler, the exception leaves main
MainStartRaises ==
    /\ UNCHANGED <<poolVars, failVars, statVars>>
    /\ Resting
    /\ STATE_FILE.torn
    /\ pc' = "aborted"
    /\ killed_after_commit' = <<>>
    /\ UNCHANGED <<source_dir, source_dir_path, STATE_FILE, pending_tasks, task_i,
                   TEMP_TAR_DIR, ARXIV_DIR, raised, pool_stats, items_failed, monitor,
                   speed_log, retried, tar_members, stop_event, after_stop>>

\* lines 176-180 raise (the state file cannot be read or written): the
\* "except Exception" of line 184 catches it
CommitRaises ==
    /\ UNCHANGED <<poolVars, failVars, statVars>>
    /\ pc = "commit"
    /\ raised' = TRUE
    /\ pc' = "handler"
    /\ UNCHANGED <<source_dir, source_dir_path, STATE_FILE, pending_tasks, task_i,
                   TEMP_TAR_DIR, ARXIV_DIR, pool_stats, killed_after_commit,
                   items_failed, monitor, speed_log, retried, tar_members, stop_event,
                   after_stop>>

\* lines 187-191 raise inside the except block: nothing catches it there, the
\* finally block of lines 192-195 clears both directories, then the
\* exception leaves the loop, the outer finally stops the monitor, and main
\* ends with it
HandlerRaises ==
    /\ UNCHANGED <<poolVars, failVars, statVars>>
    /\ pc = "handler"
    /\ TEMP_TAR_DIR' = cleanup_after(TEMP_TAR_DIR, TRUE)
    /\ ARXIV_DIR' = cleanup_after(ARXIV_DIR, TRUE)
    /\ pc' = "aborted"
    /\ task_i' = 0
    /\ pending_tasks' = <<>>
    /\ raised' = FALSE
    /\ pool_stats' = <<>>
    /\ killed_after_commit' = <<>>
    /\ items_failed' = FALSE
    /\ monitor' = "off"
    /\ UNCHANGED <<source_dir, source_dir_path, STATE_FILE, speed_log, retried,
                   tar_members, stop_event, after_stop>>

\* the output directory of one item: whose it is, whether this orchestrator
\* process wrote it (run) and whether it was written in the place of an
\* earlier one (replaced)
OutputOf(it, replaced) ==
    [base |-> it, of |-> it, run |-> "current", replaced |-> replaced]

DirsOf(dir, it) == { o \in dir : o.base = it }

\* a converter that would leave a directory it finds at the final path
write_output_beside(dir, it) == dir \cup { OutputOf(it, DirsOf(dir, it) # {}) }

\* tex_processor.py lines 100-105: an existing final_output_dir is removed,
\* then the temporary output directory is moved to its path
write_output(dir, it) ==
    (dir \ DirsOf(dir, it)) \cup { OutputOf(it, DirsOf(dir, it) # {}) }

\* the directories as the next process finds them
LeftBehind(dir) == { [o EXCEPT !.run = "earlier"] : o \in dir }

\* the statistics of the pool run in progress, process_files line 195
RunningStats ==
    IF pool_stats = <<>> THEN NewStats(Cardinality(ARXIV_DIR)) ELSE pool_stats[1]

\* the items of the intake area no worker has taken in this pool run
Untaken ==
    { it \in ARXIV_DIR :
         \A o \in DirsOf(OUTPUT_DIR, it) : o.run # "current" }

\* one item of the pool run of line 172 is converted: its output directory
\* is written and its "success" record collected
ConvertItem ==
    /\ UNCHANGED <<poolVars, statVars>>
    /\ pc = "pool"
    /\ \E it \in Untaken :
          /\ OUTPUT_DIR' = write_output(OUTPUT_DIR, it)
          /\ pool_stats' =
                << collect_result(RunningStats,
                                  [file_name |-> it, status |-> "success", time |-> 1]) >>
    /\ UNCHANGED <<source_dir, source_dir_path, STATE_FILE, pc, pending_tasks, task_i,
                   TEMP_TAR_DIR, ARXIV_DIR, raised, killed_after_commit, items_failed,
                   monitor, speed_log, retried, tar_members, stop_event, after_stop>>
    /\ UNCHANGED <<SOURCE_DIR, FAILED_DIR, fail_log, now, handler, outcomes,
                   quarantined, staged, measured>>

\* one item of the pool run fails: main.py lines 94-107, the output directory
\* of its base name is removed and the file leaves the intake area
FailItem ==
    /\ UNCHANGED <<poolVars, statVars>>
    /\ pc = "pool"
    /\ \E it \in Untaken :
          /\ OUTPUT_DIR' = OUTPUT_DIR \ DirsOf(OUTPUT_DIR, it)
          /\ ARXIV_DIR' = ARXIV_DIR \ { it }
          /\ pool_stats' =
                << collect_result(RunningStats,
                                  [file_name |-> it, status |-> "failure", time |-> 1]) >>
    /\ items_failed' = TRUE
    /\ UNCHANGED <<source_dir, source_dir_path, STATE_FILE, pc, pending_tasks, task_i,
                   TEMP_TAR_DIR, raised, killed_after_commit, monitor, speed_log,
                   retried, tar_members, stop_event, after_stop>>
    /\ UNCHANGED <<SOURCE_DIR, FAILED_DIR, fail_log, now, handler, outcomes,
                   quarantined, staged, measured>>

\* the pool run has collected a record for every file (or there was no file):
\* run_parallel_processing returns
PoolDone ==
    /\ UNCHANGED <<poolVars, failVars, statVars>>
    /\ pc = "pool"
    /\ RunningStats.processed_files = RunningStats.total_files
    /\ pool_stats' =
          IF pool_stats = <<>> THEN <<>> ELSE << [pool_stats[1] EXCEPT !.end_time = 1] >>
    /\ pc' = "commit"
    /\ UNCHANGED <<source_dir, source_dir_path, STATE_FILE, pending_tasks, task_i,
                   TEMP_TAR_DIR, ARXIV_DIR, raised, killed_after_commit, items_failed,
                   monitor, speed_log, retried, tar_members, stop_event, after_stop>>

\* the orchestrator and its workers are killed while an entry is in work and
\* its status not yet written: between two steps, or inside a conversion
\* between the removal of the old output directory and the move of the new
\* one (tex_processor.py lines 102 and 105)
KillBeforeCommit ==
    /\ UNCHANGED <<poolVars, statVars>>
    /\ pc \in { "stage", "pool", "commit" }
    /\ \/ OUTPUT_DIR' = LeftBehind(OUTPUT_DIR)
       \/ /\ pc = "pool"
          /\ \E it \in Untaken :
                /\ DirsOf(OUTPUT_DIR, it) # {}
                /\ OUTPUT_DIR' = LeftBehind(OUTPUT_DIR \ DirsOf(OUTPUT_DIR, it))
    /\ pc' = "killed"
    /\ task_i' = 0
    /\ pending_tasks' = <<>>
    /\ raised' = FALSE
    /\ pool_stats' = <<>>
    /\ items_failed' = FALSE
    /\ monitor' = "off"
    /\ UNCHANGED <<source_dir, source_dir_path, STATE_FILE, TEMP_TAR_DIR, ARXIV_DIR,
                   speed_log, retried, tar_members, killed_after_commit,
                   stop_event, after_stop>>
    /\ UNCHANGED <<SOURCE_DIR, FAILED_DIR, fail_log, now, handler, outcomes,
                   quarantined, staged, measured>>

\* the places a regular file can have in an archive: at its top level, in
\* one of two top-level directories, or one directory further down
MemberDirs == { <<>>, <<"1">>, <<"2">>, <<"1", "sub">> }

MemberNames == { <<"x", "gz">>, <<"y", "gz">> }

Members == [dir : MemberDirs, name : MemberNames]

\* the archives of at most MaxPayload regular files
Layouts == { S \in SUBSET Members : Cardinality(S) <= MaxPayload }

\* lines 159 and 164-165: what the two loops reach, the files lying directly
\* in a directory of temp_tar
Movable(tree) == { m \in tree : Len(m.dir) = 1 }

\* line 166, shutil.move(file_item, ARXIV_DIR / file_item.name): the file
\* gets the path of its name in the intake area, in the place of a file that
\* has it
move_to_intake(intake, m) ==
    { i \in intake : i.name # m.name } \cup { [name |-> m.name, member |-> m] }

\* lines 151-153: the archive is expanded under temp_tar
Extract ==
    /\ UNCHANGED <<poolVars, failVars, statVars>>
    /\ pc = "extract"
    /\ TEMP_TAR_DIR' = tar_members
    /\ pc' = "move"
    /\ UNCHANGED <<source_dir, source_dir_path, STATE_FILE, pending_tasks, task_i,
                   ARXIV_DIR, raised, pool_stats, killed_after_commit, items_failed,
                   monitor, speed_log, retried, tar_members, stop_event, after_stop>>

\* lines 159-167: one file the loops reach is moved into the intake area
MoveFile ==
    /\ UNCHANGED <<poolVars, failVars, statVars>>
    /\ pc = "move"
    /\ \E m \in Movable(TEMP_TAR_DIR) :
          /\ TEMP_TAR_DIR' = TEMP_TAR_DIR \ { m }
          /\ ARXIV_DIR' = move_to_intake(ARXIV_DIR, m)
    /\ UNCHANGED <<source_dir, source_dir_path, STATE_FILE, pending_tasks, task_i, pc,
                   raised, pool_stats, killed_after_commit, items_failed, monitor,
                   speed_log, retried, tar_members, stop_event, after_stop>>

\* the loops are through: step e begins
MovesDone ==
    /\ UNCHANGED <<poolVars, failVars, statVars>>
    /\ pc = "move"
    /\ Movable(TEMP_TAR_DIR) = {}
    /\ pc' = "pool"
    /\ UNCHANGED <<source_dir, source_dir_path, STATE_FILE, pending_tasks, task_i,
                   TEMP_TAR_DIR, ARXIV_DIR, raised, pool_stats, killed_after_commit,
                   items_failed, monitor, speed_log, retried, tar_members, stop_event,
                   after_stop>>

\* between two runs an operator edits the state file and sets the status of
\* a failed entry back to pending
OperatorReset(f) ==
    /\ UNCHANGED <<poolVars, failVars, statVars>>
    /\ Resting
    /\ ~STATE_FILE.torn
    /\ StatusOf(f) = "failed"
    /\ STATE_FILE' = [STATE_FILE EXCEPT !.files = set_status(@, f, "pending")]
    /\ retried' = retried \cup { f }
    /\ UNCHANGED <<source_dir, source_dir_path, pending_tasks, task_i, pc, TEMP_TAR_DIR,
                   ARXIV_DIR, raised, pool_stats, killed_after_commit, items_failed,
                   monitor, speed_log, tar_members, stop_event, after_stop>>

\* between two runs, archives arrive in the source directory and leave it
AddFile(f) ==
    /\ UNCHANGED <<poolVars, failVars, statVars>>
    /\ Resting
    /\ f \notin source_dir
    /\ source_dir' = source_dir \cup { f }
    /\ UNCHANGED <<source_dir_path, STATE_FILE, pending_tasks, task_i, pc,
                   TEMP_TAR_DIR, ARXIV_DIR, raised, pool_stats, killed_after_commit,
                   items_failed, monitor, speed_log, retried, tar_members,
                   stop_event, after_stop>>

RemoveFile(f) ==
    /\ UNCHANGED <<poolVars, failVars, statVars>>
    /\ Resting
    /\ f \in source_dir
    /\ source_dir' = source_dir \ { f }
    /\ UNCHANGED <<source_dir_path, STATE_FILE, pending_tasks, task_i, pc,
                   TEMP_TAR_DIR, ARXIV_DIR, raised, pool_stats, killed_after_commit,
                   items_failed, monitor, speed_log, retried, tar_members,
                   stop_event, after_stop>>

\* directories main can be called with
SourceDirs == { "source", "moved" }

\* between two runs the source directory is renamed, its archives with it,
\* and the next run is started with the new path
Relocate(d) ==
    /\ UNCHANGED <<poolVars, failVars, statVars>>
    /\ Resting
    /\ d # source_dir_path
    /\ source_dir_path' = d
    /\ UNCHANGED <<source_dir, STATE_FILE, pending_tasks, task_i, pc, TEMP_TAR_DIR,
                   ARXIV_DIR, raised, pool_stats, killed_after_commit, items_failed,
                   monitor, speed_log, retried, tar_members, stop_event, after_stop>>

(***************************************************************************)
(* Failure handling of one work item: process_single_file_with_failover,   *)
(* cleanup_failed_output_directory, safe_move_to_failed, write_failure_log *)
(***************************************************************************)
\* the names files come with: two TeX archives, both of base name p, a PDF
\* and a file of no supported type
FailNameOrder == << <<"p", "gz">>, <<"p", "tar", "gz">>, <<"q", "pdf">>, <<"r", "txt">> >>

FailNames == { FailNameOrder[i] : i \in DOMAIN FailNameOrder }

FileIds == 1..MaxFailed

FailWorkers == 1..MaxWorkers

\* file_system.get_base_name: the name without ".tar.gz", else Path.stem
get_base_name(name) ==
    IF EndsWithTarGz(name) THEN SubSeq(name, 1, Len(name) - 2)
    ELSE SubSeq(name, 1, Len(name) - 1)

\* lines 30 and 34-37: failed_dir / file_path.name, or stem_timestamp.suffix
\* (Path.stem is the name without its last component)
PlainTarget(name) ==
    [stem |-> SubSeq(name, 1, Len(name) - 1), stamp |-> <<>>, suffix |-> Suffix(name)]

StampedTarget(name, timestamp) ==
    [stem |-> SubSeq(name, 1, Len(name) - 1), stamp |-> <<timestamp>>,
     suffix |-> Suffix(name)]

TargetExists(target) == \E q \in FAILED_DIR : q.target = target

\* lines 30-37: the target path safe_move_to_failed settles on
choose_target(name, timestamp) ==
    IF TargetExists(PlainTarget(name)) THEN StampedTarget(name, timestamp)
    ELSE PlainTarget(name)

\* a worker between two items; while it handles a failed one: the file, whether
\* the output cleanup went through (cleaned), the target path, what
\* safe_move_to_failed returned (ok), and for an item whose converter call
\* ran into its timeout (timed_out) the worker's start_time for it
IdleHandler ==
    [pc |-> "idle", file |-> <<>>, cleaned |-> FALSE, target |-> <<>>, ok |-> FALSE,
     start |-> 0, timed_out |-> FALSE]

\* tex_processor.py line 254: subprocess.run(..., timeout=300), in the unit
\* of the clock
LATEXML_TIMEOUT == 1

\* the time field of the record of an item that timed out
Measure(elapsed) == [time |-> elapsed]

AllIdle == \A w \in FailWorkers : handler[w].pc = "idle"

Held(f) == \E w \in FailWorkers : handler[w].file = <<f>>

\* batch_processor lines 140-167 seen from the intake area: between two pool
\* runs the area is cleared and the next archive's files are moved into it
NextArchive ==
    /\ UNCHANGED <<batchVars, poolVars, statVars>>
    /\ AllIdle
    /\ \E S \in (SUBSET DOMAIN FailNameOrder) \ { {} } :
          /\ staged + Cardinality(S) <= MaxFailed
          /\ SOURCE_DIR' =
                { [name |-> FailNameOrder[i],
                   id   |-> staged + Cardinality({ j \in S : j <= i })] : i \in S }
          /\ staged' = staged + Cardinality(S)
    /\ UNCHANGED <<OUTPUT_DIR, FAILED_DIR, fail_log, now, handler, outcomes,
                   quarantined, measured>>

\* worker_process lines 134-156 with tex_processor.process lines 75-83: a
\* worker takes a file nobody has taken; the converter either succeeds, its
\* output directory replacing any directory of that base name, and the worker
\* emits "success", or it reports failure and the failure handling begins
Convert(w) ==
    /\ UNCHANGED <<batchVars, poolVars, statVars>>
    /\ handler[w].pc = "idle"
    /\ \E f \in SOURCE_DIR :
          /\ get_file_type(f.name) = "tex"
          /\ ~Held(f)
          /\ outcomes[f.id] = <<>>
          /\ \/ /\ OUTPUT_DIR' =
                      { o \in OUTPUT_DIR : o.base # get_base_name(f.name) }
                         \cup { [base |-> get_base_name(f.name), of |-> f.name] }
                /\ outcomes' = [outcomes EXCEPT ![f.id] = Append(@, "success")]
                /\ UNCHANGED handler
             \/ /\ handler' = [handler EXCEPT ![w] =
                                  [IdleHandler EXCEPT !.pc = "cleanup", !.file = <<f>>]]
                /\ UNCHANGED <<OUTPUT_DIR, outcomes>>
    /\ UNCHANGED <<SOURCE_DIR, FAILED_DIR, fail_log, now, quarantined, staged,
                   measured>>

\* a converter call whose TimeoutExpired nothing would catch: it ends the
\* worker
timeout_ends_worker(f, start_time) ==
    [IdleHandler EXCEPT !.pc = "aborted", !.file = <<f>>, !.start = start_time,
                        !.timed_out = TRUE]

\* tex_processor.py lines 265-268 and 83-86, main.py lines 66-72 and 94-99:
\* subprocess.TimeoutExpired is caught, convert_with_latexml_html and process
\* return False, and the failure handling of the item begins
on_timeout(f, start_time) ==
    [IdleHandler EXCEPT !.pc = "cleanup", !.file = <<f>>, !.start = start_time,
                        !.timed_out = TRUE]

\* worker_process lines 134-150 with tex_processor.py lines 250-255: a worker
\* takes a file nobody has taken and the converter call runs until its
\* timeout expires
ConvertTimeout(w) ==
    /\ UNCHANGED <<batchVars, poolVars, statVars>>
    /\ handler[w].pc = "idle"
    /\ now + LATEXML_TIMEOUT <= MaxTime
    /\ \E f \in SOURCE_DIR :
          /\ get_file_type(f.name) = "tex"
          /\ ~Held(f)
          /\ outcomes[f.id] = <<>>
          /\ handler' = [handler EXCEPT ![w] = on_timeout(f, now)]
    /\ now' = now + LATEXML_TIMEOUT
    /\ UNCHANGED <<SOURCE_DIR, OUTPUT_DIR, FAILED_DIR, fail_log, outcomes,
                   quarantined, staged, measured>>

\* a worker that would hand every file to the converter chain
skip_as_failure(h, f) == [IdleHandler EXCEPT !.pc = "cleanup", !.file = <<f>>]

\* worker_process lines 147-149 and 160-162: nothing is called for a PDF or a
\* file of an unsupported type, the worker stays between two items
after_skip(h, f) == h

\* worker_process lines 134-149 and 160-168: a worker takes a file that is a
\* PDF or of no supported type and puts its record without calling
\* process_single_file_with_failover
Skip(w) ==
    /\ UNCHANGED <<batchVars, poolVars, statVars>>
    /\ handler[w].pc = "idle"
    /\ \E f \in SOURCE_DIR, elapsed \in Elapsed :
          /\ get_file_type(f.name) # "tex"
          /\ ~Held(f)
          /\ outcomes[f.id] = <<>>
          /\ handler' = [handler EXCEPT ![w] = after_skip(@, f)]
          /\ outcomes' =
                IF handler'[w].pc = "idle"
                THEN [outcomes EXCEPT
                         ![f.id] = Append(@, worker_result(f.name, "none", elapsed).status)]
                ELSE outcomes
    /\ UNCHANGED <<SOURCE_DIR, OUTPUT_DIR, FAILED_DIR, fail_log, now, quarantined,
                   staged, measured>>

\* main.py lines 111-128, cleanup_failed_output_directory: OUTPUT_DIR/base_name
\* is removed if it exists; an exception of rmtree is logged and swallowed
CleanupOutput(w) ==
    /\ UNCHANGED <<batchVars, poolVars, statVars>>
    /\ handler[w].pc = "cleanup"
    /\ LET base == get_base_name(handler[w].file[1].name)
       IN  \/ /\ OUTPUT_DIR' = { o \in OUTPUT_DIR : o.base # base }
              /\ handler' = [handler EXCEPT ![w].pc = "check", ![w].cleaned = TRUE]
           \/ /\ \E o \in OUTPUT_DIR : o.base = base
              /\ UNCHANGED OUTPUT_DIR
              /\ handler' = [handler EXCEPT ![w].pc = "check"]
    /\ UNCHANGED <<SOURCE_DIR, FAILED_DIR, fail_log, now, outcomes, quarantined,
                   staged, measured>>

\* file_system.py lines 27-37: the target path is settled, with the clock read
\* when the plain name is taken
CheckTarget(w) ==
    /\ UNCHANGED <<batchVars, poolVars, statVars>>
    /\ handler[w].pc = "check"
    /\ handler' = [handler EXCEPT
                      ![w].pc = "move",
                      ![w].target = << choose_target(handler[w].file[1].name, now) >>]
    /\ UNCHANGED <<SOURCE_DIR, OUTPUT_DIR, FAILED_DIR, fail_log, now, outcomes,
                   quarantined, staged, measured>>

\* a move that would leave the file where it was
after_copy(dir, f) == dir

\* line 39, shutil.move: the file is gone from the directory it lay in
after_move(dir, f) == dir \ { f }

\* safe_move_to_failed would let the exception of the move out
move_error_propagates(h) == [h EXCEPT !.pc = "raised", !.ok = FALSE]

\* lines 47-49: the exception is logged, safe_move_to_failed returns False
on_move_error(h) == [h EXCEPT !.pc = "emit", !.ok = FALSE]

\* line 39: shutil.move renames the file onto the target path, replacing a
\* file that is there, or raises
Move(w) ==
    /\ UNCHANGED <<batchVars, poolVars, statVars>>
    /\ handler[w].pc = "move"
    /\ LET f == handler[w].file[1]
           t == handler[w].target[1]
       IN  \/ /\ FAILED_DIR' = { q \in FAILED_DIR : q.target # t }
                                   \cup { [target |-> t, id |-> f.id] }
              /\ SOURCE_DIR' = after_move(SOURCE_DIR, f)
              /\ quarantined' = quarantined + 1
              /\ handler' = [handler EXCEPT ![w].pc = "log"]
           \/ /\ handler' = [handler EXCEPT ![w] = on_move_error(@)]
              /\ UNCHANGED <<FAILED_DIR, SOURCE_DIR, quarantined>>
    /\ UNCHANGED <<OUTPUT_DIR, fail_log, now, outcomes, staged, measured>>

\* lines 42-45 and write_failure_log: one line appended to fail.log (the
\* message of a failed conversion is never empty), or the write raises, which
\* write_failure_log swallows; safe_move_to_failed returns True
Log(w) ==
    /\ UNCHANGED <<batchVars, poolVars, statVars>>
    /\ handler[w].pc = "log"
    /\ \/ fail_log' = Append(fail_log, [timestamp |-> now,
                                       filename  |-> handler[w].file[1].name,
                                       message   |-> "error_msg"])
       \/ UNCHANGED fail_log
    /\ handler' = [handler EXCEPT ![w].pc = "emit", ![w].ok = TRUE]
    /\ UNCHANGED <<SOURCE_DIR, OUTPUT_DIR, FAILED_DIR, now, outcomes, quarantined,
                   staged, measured>>

\* main.py lines 104-109 and worker_process lines 150-168: failover returns
\* False, the worker reads the clock for the record's time, puts the item's
\* "failure" record and takes the next item
Emit(w) ==
    /\ UNCHANGED <<batchVars, poolVars, statVars>>
    /\ handler[w].pc = "emit"
    /\ LET result == worker_result(handler[w].file[1].name, "fail",
                                   now - handler[w].start)
       IN  /\ outcomes' = [outcomes EXCEPT
                              ![handler[w].file[1].id] = Append(@, result.status)]
           /\ measured' =
                 IF handler[w].timed_out
                 THEN [measured EXCEPT
                          ![handler[w].file[1].id] = Append(@, Measure(result.time))]
                 ELSE measured
    /\ handler' = [handler EXCEPT ![w] = IdleHandler]
    /\ UNCHANGED <<SOURCE_DIR, OUTPUT_DIR, FAILED_DIR, fail_log, now, quarantined,
                   staged>>

\* a second passes
Tick ==
    /\ UNCHANGED <<batchVars, poolVars, statVars>>
    /\ now < MaxTime
    /\ now' = now + 1
    /\ UNCHANGED <<SOURCE_DIR, OUTPUT_DIR, FAILED_DIR, fail_log, handler, outcomes,
                   quarantined, staged, measured>>

\* nothing in the intake area, no output, an empty quarantine
FailIdle ==
    /\ SOURCE_DIR = {}
    /\ OUTPUT_DIR = {}
    /\ FAILED_DIR = {}
    /\ fail_log = <<>>
    /\ now = 0
    /\ handler = [w \in FailWorkers |-> IdleHandler]
    /\ outcomes = [i \in FileIds |-> <<>>]
    /\ quarantined = 0
    /\ staged = 0
    /\ measured = [i \in FileIds |-> <<>>]

FailNext ==
    \/ NextArchive
    \/ \E w \in FailWorkers : Convert(w)
    \/ \E w \in FailWorkers : Skip(w)
    \/ \E w \in FailWorkers : CleanupOutput(w)
    \/ \E w \in FailWorkers : CheckTarget(w)
    \/ \E w \in FailWorkers : Move(w)
    \/ \E w \in FailWorkers : Log(w)
    \/ \E w \in FailWorkers : Emit(w)
    \/ Tick

(***************************************************************************)
(* ProcessingStats: its derived properties, and collections in two orders  *)
(* A duration is a float with a significand of MantissaBits bits, and an    *)
(* addition of two rounds to the nearest such float, ties to even, as the   *)
(* double addition of the code does.  A quotient is kept as num/den.        *)
(***************************************************************************)
\* the distance between neighbouring floats at the magnitude of x
RECURSIVE Ulp(_)
Ulp(x) == IF x < 2 ^ MantissaBits THEN 1 ELSE 2 * Ulp(x \div 2)

\* the float nearest to the real x >= 0, ties to the even significand
RoundToFloat(x) ==
    LET u == Ulp(x)
        q == x \div u
        r == x % u
    IN  IF 2 * r < u THEN q * u
        ELSE IF 2 * r > u THEN (q + 1) * u
        ELSE IF q % 2 = 0 THEN q * u
        ELSE (q + 1) * u

\* float.__add__
float_add(a, b) == RoundToFloat(a + b)

\* builtin sum(): start with 0, add the items from left to right
RECURSIVE float_sum(_, _)
float_sum(acc, q) ==
    IF q = <<>> THEN acc ELSE float_sum(float_add(acc, Head(q)), Tail(q))

\* the elapsed times of the model: a short one and the smallest one next to
\* which a short one is below half the float spacing
Durations == { 1, 2 ^ MantissaBits }

\* a rate that would divide by every collected record
rate_over_processed(st) ==
    IF st.successful_files + st.failed_files + st.skipped_files = 0
    THEN [num |-> 0, den |-> 1]
    ELSE [num |-> st.successful_files * 100,
          den |-> st.successful_files + st.failed_files + st.skipped_files]

\* lines 65-70, ProcessingStats.success_rate
success_rate(st) ==
    IF st.successful_files + st.failed_files = 0
    THEN [num |-> 0, den |-> 1]
    ELSE [num |-> st.successful_files * 100,
          den |-> st.successful_files + st.failed_files]

\* line 93, f"{value:.2f}": the fraction rounded to hundredths, in hundredths
Format2f(r) == (2 * 100 * r.num + r.den) \div (2 * r.den)

Sorted(q) == SortSeq(q, LAMBDA a, b : a < b)

\* lines 41-46, average_time
average_time(st) ==
    IF st.processing_times = <<>> THEN [num |-> 0, den |-> 1]
    ELSE [num |-> float_sum(0, st.processing_times), den |-> Len(st.processing_times)]

\* lines 48-53, median_time: numpy.median, the middle of the sorted list or
\* the mean of its two middle values
median_time(st) ==
    LET q == Sorted(st.processing_times)
        n == Len(q)
    IN  IF n = 0 THEN [num |-> 0, den |-> 1]
        ELSE IF n % 2 = 1 THEN [num |-> q[(n + 1) \div 2], den |-> 1]
        ELSE [num |-> q[n \div 2] + q[n \div 2 + 1], den |-> 2]

\* lines 55-63, max_time and min_time
max_time(st) ==
    IF st.processing_times = <<>> THEN 0
    ELSE Sorted(st.processing_times)[Len(st.processing_times)]

min_time(st) ==
    IF st.processing_times = <<>> THEN 0 ELSE Sorted(st.processing_times)[1]

\* numpy.percentile(q, p), linear interpolation, for p a multiple of 10: the
\* value at position p/100 * (n - 1) of the sorted list, as a fraction over 10
percentile(q, p) ==
    LET srt == Sorted(q)
        pos == (p \div 10) * (Len(q) - 1)
        lo  == pos \div 10 + 1
        hi  == IF lo < Len(q) THEN lo + 1 ELSE lo
    IN  [num |-> 10 * srt[lo] + (pos % 10) * (srt[hi] - srt[lo]), den |-> 10]

\* a range that would be the smallest and the largest duration
range_min_to_max(st) ==
    IF Len(st.processing_times) < 2
    THEN << [num |-> 0, den |-> 1], [num |-> 0, den |-> 1] >>
    ELSE << [num |-> 10 * Sorted(st.processing_times)[1], den |-> 10],
            [num |-> 10 * Sorted(st.processing_times)[Len(st.processing_times)],
             den |-> 10] >>

\* lines 72-79, middle_80_percent_time_range
middle_80_percent_time_range(st) ==
    IF Len(st.processing_times) < 2
    THEN << [num |-> 0, den |-> 1], [num |-> 0, den |-> 1] >>
    ELSE << percentile(st.processing_times, 10), percentile(st.processing_times, 90) >>

\* what a report shows of a ProcessingStats (generate_csv_report, lines 85-99)
Summary(st) ==
    [success_rate |-> success_rate(st),
     average_time |-> average_time(st),
     median_time  |-> median_time(st),
     max_time     |-> max_time(st),
     min_time     |-> min_time(st),
     middle_80    |-> middle_80_percent_time_range(st)]

\* the outcome records a worker can put (worker_process lines 142-166): a
\* success or a failure with its elapsed time, which is 0 when the clock did
\* not advance, a skipped item with the initial 0
RecordKinds ==
    { [status |-> "success", time |-> t] : t \in {0} \cup Durations }
        \cup { [status |-> "failure", time |-> t] : t \in {0} \cup Durations }
        \cup { [status |-> "skipped", time |-> 0] }

RecordLists == UNION { [1..n -> RecordKinds] : n \in 0..MaxRecords }

\* the orders in which the records of a list can arrive
Arrivals(q) ==
    { [i \in DOMAIN q |-> q[perm[i]]] :
        perm \in { f \in [DOMAIN q -> DOMAIN q] :
                      \A i, j \in DOMAIN q : i # j => f[i] # f[j] } }

\* a ProcessingStats with given counters
StatsOfCounts(c) ==
    [NewStats(c.s + c.f + c.k) EXCEPT !.processed_files = c.s + c.f + c.k,
                                      !.successful_files = c.s,
                                      !.failed_files = c.f,
                                      !.skipped_files = c.k]

NoCounts == [s |-> 0, f |-> 0, k |-> 0]

\* the duration lists whose central range is read: 1, 2, ..., n, and every
\* short list of durations in any order
DurationLists ==
    { [i \in 1..n |-> i] : n \in 0..MaxRamp }
        \cup UNION { [1..n -> {1, 2, 4}] : n \in 0..MaxRecords }

\* a ProcessingStats that has recorded these durations, each of a success
StatsOfTimes(q) ==
    [NewStats(Len(q)) EXCEPT !.processed_files = Len(q),
                             !.successful_files = Len(q),
                             !.processing_times = q]

\* nothing is being computed
StatIdle ==
    /\ stat_mode = "off"
    /\ counts = NoCounts
    /\ rate_out = <<>>
    /\ sample = <<>>
    /\ arrival = <<>>
    /\ acc_a = NewStats(0)
    /\ acc_b = NewStats(0)
    /\ acc_i = 0
    /\ report = <<>>
    /\ range_out = <<>>

\* a ProcessingStats with any counters, or any list of records and any second
\* arrival order of it, two ProcessingStats(total_files = n) to collect them
StatInit ==
    /\ rate_out = <<>>
    /\ acc_i = 0
    /\ report = <<>>
    /\ range_out = <<>>
    /\ \/ /\ stat_mode = "rate"
          /\ counts \in [s : 0..MaxCount, f : 0..MaxCount, k : 0..MaxCount]
          /\ sample = <<>>
          /\ arrival = <<>>
          /\ acc_a = NewStats(0)
          /\ acc_b = NewStats(0)
       \/ /\ stat_mode = "collect"
          /\ counts = NoCounts
          /\ sample \in RecordLists
          /\ arrival \in Arrivals(sample)
          /\ acc_a = NewStats(Len(sample))
          /\ acc_b = NewStats(Len(sample))
       \/ /\ stat_mode = "range"
          /\ counts = NoCounts
          /\ sample = <<>>
          /\ arrival = <<>>
          /\ acc_a \in { StatsOfTimes(q) : q \in DurationLists }
          /\ acc_b = NewStats(0)

\* the success_rate property is read
ReadRate ==
    /\ UNCHANGED <<batchVars, poolVars, failVars>>
    /\ stat_mode = "rate"
    /\ rate_out = <<>>
    /\ rate_out' = << success_rate(StatsOfCounts(counts)) >>
    /\ UNCHANGED <<stat_mode, counts, sample, arrival, acc_a, acc_b, acc_i, report,
                   range_out>>

\* process_files lines 205-219: each of the two collections takes its next record
CollectNext ==
    /\ UNCHANGED <<batchVars, poolVars, failVars>>
    /\ stat_mode = "collect"
    /\ acc_i < Len(sample)
    /\ acc_a' = collect_result(acc_a, sample[acc_i + 1])
    /\ acc_b' = collect_result(acc_b, arrival[acc_i + 1])
    /\ acc_i' = acc_i + 1
    /\ UNCHANGED <<stat_mode, counts, rate_out, sample, arrival, report, range_out>>

\* generate_csv_report, lines 85-99: both collections are complete and the
\* properties of each are read
Report ==
    /\ UNCHANGED <<batchVars, poolVars, failVars>>
    /\ stat_mode = "collect"
    /\ acc_i = Len(sample)
    /\ report = <<>>
    /\ report' = << [a |-> Summary(acc_a), b |-> Summary(acc_b)] >>
    /\ UNCHANGED <<stat_mode, counts, rate_out, sample, arrival, acc_a, acc_b, acc_i,
                   range_out>>

\* the middle_80_percent_time_range property is read (line 89)
ReadRange ==
    /\ UNCHANGED <<batchVars, poolVars, failVars>>
    /\ stat_mode = "range"
    /\ range_out = <<>>
    /\ range_out' = << middle_80_percent_time_range(acc_a) >>
    /\ UNCHANGED <<stat_mode, counts, rate_out, sample, arrival, acc_a, acc_b, acc_i,
                   report>>

StatNext ==
    \/ ReadRate
    \/ CollectNext
    \/ Report
    \/ ReadRange

BatchInit ==
    /\ source_dir = {}
    /\ source_dir_path = "source"
    /\ STATE_FILE = [exists |-> FALSE, files |-> <<>>, torn |-> FALSE]
    /\ pending_tasks = <<>>
    /\ task_i = 0
    /\ pc = "idle"
    /\ TEMP_TAR_DIR = {}
    /\ ARXIV_DIR = {}
    /\ raised = FALSE
    /\ pool_stats = <<>>
    /\ killed_after_commit = <<>>
    /\ items_failed = FALSE
    /\ monitor = "off"
    /\ speed_log = <<>>
    /\ retried = {}
    /\ tar_members = {}
    /\ stop_event = FALSE
    /\ after_stop = 0

\* no process_files run in progress
PoolIdle ==
    /\ file_list = <<>>
    /\ num_workers = 0
    /\ file_queue = <<>>
    /\ result_queue = <<>>
    /\ workers = <<>>
    /\ stats = NewStats(0)
    /\ main_pc = "start"
    /\ loop_i = 0
    /\ join_i = 0
    /\ interrupted = FALSE
    /\ taken = [f \in PoolFiles |-> 0]
    /\ emitted = [f \in PoolFiles |-> 0]

vars == <<batchVars, poolVars, failVars, statVars>>

BatchStep ==
    \/ MainStart
    \/ Stage
    \/ RunPool
    \/ Commit
    \/ Handler
    \/ Cleanup
    \/ CleanupRaises

BatchEnv ==
    \/ \E f \in TarNames : AddFile(f)
    \/ \E f \in TarNames : RemoveFile(f)

\* interrupts and kills of the orchestrator's process
BatchCrash ==
    \/ Interrupt
    \/ Unwind
    \/ Kill
    \/ KillDuringWrite
    \/ MainStartRaises

Init == BatchInit /\ PoolIdle /\ FailIdle /\ StatIdle

\* the archives that come and go between the runs
ScanNames == { TarOrder[1], TarOrder[2] }

ScanNext ==
    \/ MainStart
    \/ Stage
    \/ RunPool
    \/ Commit
    \/ Handler
    \/ Cleanup
    \/ \E f \in ScanNames : AddFile(f)
    \/ \E f \in ScanNames : RemoveFile(f)
    \/ \E d \in SourceDirs : Relocate(d)

\* the orchestrator over a source directory that changes and moves
SpecScan == Init /\ [][ScanNext]_vars

InitFail == BatchInit /\ PoolIdle /\ FailIdle /\ StatIdle

InitStats == BatchInit /\ PoolIdle /\ FailIdle /\ StatInit

\* every archive is in the source directory, nothing has run yet
InitCrash ==
    /\ PoolIdle
    /\ FailIdle
    /\ StatIdle
    /\ source_dir = TarNames
    /\ source_dir_path = "source"
    /\ STATE_FILE = [exists |-> FALSE, files |-> <<>>, torn |-> FALSE]
    /\ pending_tasks = <<>>
    /\ task_i = 0
    /\ pc = "idle"
    /\ TEMP_TAR_DIR = {}
    /\ ARXIV_DIR = {}
    /\ raised = FALSE
    /\ pool_stats = <<>>
    /\ killed_after_commit = <<>>
    /\ items_failed = FALSE
    /\ monitor = "off"
    /\ speed_log = <<>>
    /\ retried = {}
    /\ tar_members = {}
    /\ stop_event = FALSE
    /\ after_stop = 0

\* the copy of an archive lies in the cleared workspace, about to be expanded
InitStage ==
    /\ PoolIdle
    /\ FailIdle
    /\ StatIdle
    /\ tar_members \in Layouts
    /\ stop_event = FALSE
    /\ after_stop = 0
    /\ source_dir = { TarOrder[1] }
    /\ source_dir_path = "source"
    /\ STATE_FILE = [exists |-> TRUE, files |-> << NewEntry(TarOrder[1]) >>,
                     torn |-> FALSE]
    /\ pending_tasks = << NewEntry(TarOrder[1]) >>
    /\ task_i = 1
    /\ pc = "extract"
    /\ TEMP_TAR_DIR = {}
    /\ ARXIV_DIR = {}
    /\ raised = FALSE
    /\ pool_stats = <<>>
    /\ killed_after_commit = <<>>
    /\ items_failed = FALSE
    /\ monitor = "sleep"
    /\ speed_log = <<>>
    /\ retried = {}

StageNext ==
    \/ Extract
    \/ MoveFile
    \/ MovesDone

\* steps c and d of one iteration, file by file
SpecStage == InitStage /\ [][StageNext]_vars

\* a process_files run with no orchestrator around it
InitPool == PoolInit /\ BatchInit /\ FailIdle /\ StatIdle

Next == BatchStep \/ BatchEnv

\* the orchestrator over a changing source directory
Spec == Init /\ [][Next]_vars

CrashNext == BatchStep \/ BatchCrash

\* the orchestrator over a fixed source directory, with interrupts and kills
SpecCrash == InitCrash /\ [][CrashNext]_vars

\* an exception that leaves speed_monitor ends the monitor thread alone
\* (threading reports it on stderr): the main thread stays where it is
monitor_failure_reaches_main(p) == "aborted"

monitor_failure(p) == p

\* a loop that goes on whatever the event says
loop_ignores_event(stop) == "sleep"

\* line 87, while not stop_event.is_set(): the monitor sleeps again, or
\* speed_monitor returns
loop_test(stop) == IF stop THEN "returned" ELSE "sleep"

\* line 88: time.sleep(60) returns in the monitor thread, whatever the main
\* thread is doing (at most MaxTicks times before the stop signal, and as
\* often again after it)
MonitorWake ==
    /\ UNCHANGED <<poolVars, failVars, statVars>>
    /\ monitor = "sleep"
    /\ IF stop_event THEN after_stop <= MaxTicks ELSE Len(speed_log) < MaxTicks
    /\ monitor' = "sample"
    /\ UNCHANGED <<source_dir, source_dir_path, STATE_FILE, pc, pending_tasks, task_i,
                   TEMP_TAR_DIR, ARXIV_DIR, raised, pool_stats, killed_after_commit,
                   items_failed, speed_log, retried, tar_members, stop_event,
                   after_stop>>

\* lines 89-102: the monitor counts the directories of OUTPUT_DIR and appends
\* a line to SPEED_LOG; an exception in that is caught and an [ERROR] line
\* is appended instead; an exception while the [ERROR] line is written
\* leaves speed_monitor; after the line, the test of line 87 ends the loop
\* when the event is set and leads to the next sleep when it is not
MonitorSample ==
    /\ UNCHANGED <<poolVars, failVars, statVars>>
    /\ monitor = "sample"
    /\ \E outcome \in { "sampled", "caught", "uncaught" } :
          /\ speed_log' = CASE outcome = "sampled" -> Append(speed_log, "count")
                             [] outcome = "caught" -> Append(speed_log, "error")
                             [] OTHER -> speed_log
          /\ monitor' = IF outcome = "uncaught" THEN "dead"
                        ELSE loop_test(stop_event)
          /\ pc' = IF outcome = "sampled" THEN pc ELSE monitor_failure(pc)
          /\ after_stop' = IF stop_event /\ outcome # "uncaught"
                           THEN after_stop + 1 ELSE after_stop
    /\ UNCHANGED <<source_dir, source_dir_path, STATE_FILE, pending_tasks, task_i,
                   TEMP_TAR_DIR, ARXIV_DIR, raised, pool_stats, killed_after_commit,
                   items_failed, retried, tar_members, stop_event>>

\* the steps of the speed_monitor thread
MonitorStep ==
    \/ MonitorWake
    \/ MonitorSample

MonitorNext == BatchStep \/ MonitorStep

\* the orchestrator over a fixed source directory, with its monitor thread
SpecMonitor == InitCrash /\ [][MonitorNext]_vars

\* lines 192-197 after the last entry: the finally block of the iteration,
\* the loop is left and the outer finally block reached, the monitor running
CleanupLast ==
    /\ UNCHANGED <<poolVars, failVars, statVars>>
    /\ pc = "cleanup"
    /\ task_i = Len(pending_tasks)
    /\ TEMP_TAR_DIR' = cleanup_after(TEMP_TAR_DIR, raised)
    /\ ARXIV_DIR' = cleanup_after(ARXIV_DIR, raised)
    /\ pc' = "stop"
    /\ raised' = FALSE
    /\ pool_stats' = <<>>
    /\ UNCHANGED <<source_dir, source_dir_path, STATE_FILE, pending_tasks, task_i,
                   killed_after_commit, items_failed, monitor, speed_log, retried,
                   tar_members, stop_event, after_stop>>

\* lines 192-195 before the last entry: Cleanup, on to the next entry
CleanupInner == Cleanup /\ pc' = "stage"

\* line 199: stop_event.set()
StopSignal ==
    /\ UNCHANGED <<poolVars, failVars, statVars>>
    /\ pc = "stop"
    /\ stop_event' = TRUE
    /\ pc' = "join"
    /\ UNCHANGED <<source_dir, source_dir_path, STATE_FILE, pending_tasks, task_i,
                   TEMP_TAR_DIR, ARXIV_DIR, raised, pool_stats, killed_after_commit,
                   items_failed, monitor, speed_log, retried, tar_members, after_stop>>

\* the thread has left speed_monitor, by return or by an exception
ThreadEnded == { "returned", "dead" }

\* a join that waits for the end of the thread only
join_unbounded(thread, timeout) == thread \in ThreadEnded

\* Thread.join(timeout): returns when the thread has ended, and when the
\* timeout (if there is one) has run out
join(thread, timeout) == thread \in ThreadEnded \/ timeout

\* line 200: monitor_thread.join(timeout=2) returns, and main with it
JoinReturns ==
    /\ UNCHANGED <<poolVars, failVars, statVars>>
    /\ pc = "join"
    /\ join(monitor, TRUE)
    /\ pc' = "done"
    /\ task_i' = 0
    /\ pending_tasks' = <<>>
    /\ killed_after_commit' = <<>>
    /\ items_failed' = FALSE
    /\ UNCHANGED <<source_dir, source_dir_path, STATE_FILE, TEMP_TAR_DIR, ARXIV_DIR,
                   raised, pool_stats, monitor, speed_log, retried, tar_members,
                   stop_event, after_stop>>

\* daemon=True at line 129: the interpreter exits after main has returned
\* and the monitor thread, where it still runs, ends with the process
ProcessExit ==
    /\ UNCHANGED <<poolVars, failVars, statVars>>
    /\ pc = "done"
    /\ monitor # "off"
    /\ monitor' = "off"
    /\ UNCHANGED <<source_dir, source_dir_path, STATE_FILE, pending_tasks, task_i, pc,
                   TEMP_TAR_DIR, ARXIV_DIR, raised, pool_stats, killed_after_commit,
                   items_failed, speed_log, retried, tar_members, stop_event,
                   after_stop>>

\* one run of main with its monitor thread, up to the end of the process
ShutdownNext ==
    \/ MainStart
    \/ Stage
    \/ RunPool
    \/ Commit
    \/ Handler
    \/ CleanupInner
    \/ CleanupLast
    \/ StopSignal
    \/ JoinReturns
    \/ ProcessExit
    \/ MonitorWake
    \/ MonitorSample

\* two archives are in the source directory, nothing has run yet
InitShutdown ==
    /\ PoolIdle
    /\ FailIdle
    /\ StatIdle
    /\ source_dir = { TarOrder[1], TarOrder[2] }
    /\ source_dir_path = "source"
    /\ STATE_FILE = [exists |-> FALSE, files |-> <<>>, torn |-> FALSE]
    /\ pending_tasks = <<>>
    /\ task_i = 0
    /\ pc = "idle"
    /\ TEMP_TAR_DIR = {}
    /\ ARXIV_DIR = {}
    /\ raised = FALSE
    /\ pool_stats = <<>>
    /\ killed_after_commit = <<>>
    /\ items_failed = FALSE
    /\ monitor = "off"
    /\ speed_log = <<>>
    /\ retried = {}
    /\ tar_members = {}
    /\ stop_event = FALSE
    /\ after_stop = 0

\* sleep and sampling return, the join returns, the interpreter exits
SpecShutdown ==
    /\ InitShutdown
    /\ [][ShutdownNext]_vars
    /\ WF_vars(MonitorStep)
    /\ WF_vars(JoinReturns)
    /\ WF_vars(ProcessExit)

\* the state file cannot be read or written when a status is to be stored
BatchPersistFail ==
    \/ CommitRaises
    \/ HandlerRaises

PersistNext == BatchStep \/ BatchPersistFail

\* the orchestrator over a fixed source directory and a state file whose
\* reads and writes can fail
SpecPersist == InitCrash /\ [][PersistNext]_vars

\* archive names for the order of the backlog: those of TarOrder and
\* arXiv_src_22_01005.tar, whose groups concatenate to the digits of
\* arXiv_src_2201_005.tar
PriorityNames ==
    { TarOrder[i] : i \in DOMAIN TarOrder }
       \cup { [prefix |-> "src", period |-> <<2, 2>>, seq |-> <<0, 1, 0, 0, 5>>] }

\* some of these archives are in the source directory, nothing has run yet
InitPriority ==
    /\ PoolIdle
    /\ FailIdle
    /\ StatIdle
    /\ source_dir \in { S \in SUBSET PriorityNames : Cardinality(S) \in 1..MaxArchives }
    /\ source_dir_path = "source"
    /\ STATE_FILE = [exists |-> FALSE, files |-> <<>>, torn |-> FALSE]
    /\ pending_tasks = <<>>
    /\ task_i = 0
    /\ pc = "idle"
    /\ TEMP_TAR_DIR = {}
    /\ ARXIV_DIR = {}
    /\ raised = FALSE
    /\ pool_stats = <<>>
    /\ killed_after_commit = <<>>
    /\ items_failed = FALSE
    /\ monitor = "off"
    /\ speed_log = <<>>
    /\ retried = {}
    /\ tar_members = {}
    /\ stop_event = FALSE
    /\ after_stop = 0

\* the orchestrator over a fixed source directory of such archives
SpecPriority == InitPriority /\ [][BatchStep]_vars

\* the orchestrator, its finally blocks raising nothing, and an operator who
\* sets failed entries back to pending
RetryNext ==
    \/ MainStart
    \/ Stage
    \/ RunPool
    \/ Commit
    \/ Handler
    \/ Cleanup
    \/ \E f \in TarNames : OperatorReset(f)

SpecRetry == InitCrash /\ [][RetryNext]_vars

\* the orchestrator with its pool runs item by item, killed and started again
RestartNext ==
    \/ MainStart
    \/ Stage
    \/ ConvertItem
    \/ FailItem
    \/ PoolDone
    \/ Commit
    \/ Handler
    \/ Cleanup
    \/ CleanupRaises
    \/ KillBeforeCommit

\* one archive is in the source directory, nothing has run yet
InitRestart ==
    /\ PoolIdle
    /\ FailIdle
    /\ StatIdle
    /\ source_dir \in { { f } : f \in TarNames }
    /\ source_dir_path = "source"
    /\ STATE_FILE = [exists |-> FALSE, files |-> <<>>, torn |-> FALSE]
    /\ pending_tasks = <<>>
    /\ task_i = 0
    /\ pc = "idle"
    /\ TEMP_TAR_DIR = {}
    /\ ARXIV_DIR = {}
    /\ raised = FALSE
    /\ pool_stats = <<>>
    /\ killed_after_commit = <<>>
    /\ items_failed = FALSE
    /\ monitor = "off"
    /\ speed_log = <<>>
    /\ retried = {}
    /\ tar_members = {}
    /\ stop_event = FALSE
    /\ after_stop = 0

SpecRestart == InitRestart /\ [][RestartNext]_vars

\* workers handling the failures of their items, archive after archive
SpecFail == InitFail /\ [][FailNext]_vars

\* the workers on TeX archives, with converter calls that can run into their
\* timeout; the clock is advanced by the timeouts
TimeoutNext ==
    \/ NextArchive
    \/ \E w \in FailWorkers : Convert(w)
    \/ \E w \in FailWorkers : ConvertTimeout(w)
    \/ \E w \in FailWorkers : CleanupOutput(w)
    \/ \E w \in FailWorkers : CheckTarget(w)
    \/ \E w \in FailWorkers : Move(w)
    \/ \E w \in FailWorkers : Log(w)
    \/ \E w \in FailWorkers : Emit(w)

SpecTimeout == InitFail /\ [][TimeoutNext]_vars

\* ProcessingStats over every input up to the bounds
SpecStats == InitStats /\ [][StatNext]_vars

PoolNext == PoolStep \/ PoolEnv

\* one process_files run
SpecPool == InitPool /\ [][PoolNext]_vars

\* the steps of a run in which every converter call returns, no worker dies
\* and no signal arrives; the join's timeout is left out of them and shown
\* never to be possible in such a run
PoolUndisturbed ==
    \/ Submit
    \/ Collect
    \/ SendSentinels
    \/ JoinEnded
    \/ Finish
    \/ \E w \in DOMAIN workers : Get(w)
    \/ \E w \in DOMAIN workers : Process(w)

\* fair scheduling: process_files and every started worker process are
\* scheduled again and again, so a step of the code that stays possible is
\* eventually taken
PoolFairness ==
    /\ WF_vars(Submit)
    /\ WF_vars(Collect)
    /\ WF_vars(SendSentinels)
    /\ WF_vars(JoinEnded)
    /\ WF_vars(Finish)
    /\ \A w \in 1..MaxWorkers : WF_vars(w \in DOMAIN workers /\ Get(w))
    /\ \A w \in 1..MaxWorkers : WF_vars(w \in DOMAIN workers /\ Process(w))

SpecPoolFair == InitPool /\ [][PoolUndisturbed]_vars /\ PoolFairness

(***************************************************************************)
(* Properties of a process_files run (SpecPool)                            *)
(***************************************************************************)
InList(f) == \E i \in DOMAIN file_list : file_list[i] = f

NoWorkerLost ==
    \A w \in DOMAIN workers : workers[w].pc \notin { "dead", "terminated", "interrupted" }

Holders(f) == { w \in DOMAIN workers : workers[w].pc = "work" /\ workers[w].item = f }

\* C1: a run over N items with at least one worker, no worker dead or
\* terminated and the collection not interrupted returns stats with
\* successful + failed + skipped = processed = total = N, every submitted
\* item having been dequeued once and having got one outcome record.
C1_NoItemLostOrDoubleCounted ==
    (main_pc = "returned" /\ num_workers >= 1 /\ ~interrupted /\ NoWorkerLost) =>
        /\ stats.successful_files + stats.failed_files + stats.skipped_files
              = stats.processed_files
        /\ stats.processed_files = stats.total_files
        /\ stats.total_files = Len(file_list)
        /\ \A f \in PoolFiles :
              /\ taken[f] = IF InList(f) THEN 1 ELSE 0
              /\ emitted[f] = taken[f]

C1_Witness ==
    /\ main_pc = "returned"
    /\ num_workers >= 2
    /\ ~interrupted
    /\ NoWorkerLost
    /\ Len(file_list) >= 2
    /\ stats.successful_files >= 1
    /\ stats.skipped_files + stats.failed_files >= 1

\* C2: under every interleaving an item is dequeued by at most one worker, is
\* never held by two workers at once, and gets at most one outcome record,
\* put by the worker that dequeued it; in a run that returns undisturbed each
\* submitted item was dequeued exactly once and got exactly one record.
C2_ExactlyOneWorkerPerItem ==
    /\ \A f \in PoolFiles :
          /\ taken[f] <= 1
          /\ emitted[f] <= taken[f]
          /\ Cardinality(Holders(f)) <= 1
          /\ Holders(f) # {} => emitted[f] = 0
          /\ ~InList(f) => taken[f] = 0
    /\ \A i, j \in DOMAIN result_queue :
          result_queue[i].file_name = result_queue[j].file_name => i = j
    /\ \A i \in DOMAIN result_queue : emitted[result_queue[i].file_name] = 1
    /\ (main_pc = "returned" /\ ~interrupted /\ NoWorkerLost /\ num_workers >= 1) =>
          \A f \in PoolFiles : InList(f) => taken[f] = 1 /\ emitted[f] = 1

C2_Witness ==
    \E w1, w2 \in DOMAIN workers :
        /\ w1 # w2
        /\ workers[w1].pc = "work"
        /\ workers[w2].pc = "work"
        /\ workers[w1].item # workers[w2].item

DiedHoldingItem ==
    \E w \in DOMAIN workers : workers[w].pc = "dead" /\ workers[w].item # NoItem

\* C3: when a worker died after dequeuing an item and before putting its
\* outcome record, process_files still returns: it has returned, or the
\* program can take a further step by itself (without an interrupt from
\* outside), so the collection does not wait forever for the missing record.
C3_ReturnsDespiteWorkerDeath ==
    DiedHoldingItem => (main_pc = "returned" \/ ENABLED PoolStep)

SentinelsIn(q) == Cardinality({ i \in DOMAIN q : q[i] = None })

Exited == { w \in DOMAIN workers : workers[w].pc = "exited" }

\* C4: an exception raised while a worker classifies or converts an item
\* becomes a failure record for that item and the worker goes back to the
\* task queue; a worker is out of its loop only by a sentinel it took or by a
\* signal (or because it was killed), never because the converter raised.
C4_ConverterErrorNeverEndsWorker ==
    /\ [](\A f \in PoolFiles, e \in Elapsed :
             worker_result(f, "raise", e) = [file_name |-> f, status |-> "failure", time |-> e])
    /\ [](\A w \in DOMAIN workers :
             workers[w].pc \in { "get", "work", "exited", "interrupted", "dead", "terminated" })
    /\ [](Cardinality(Exited) + SentinelsIn(file_queue)
             = IF main_pc \in { "join", "returned" } THEN num_workers ELSE 0)
    /\ [][\A w \in DOMAIN workers :
             (workers[w].pc = "work" /\ workers'[w].pc
                  \notin { "work", "interrupted", "dead", "terminated" }) =>
                /\ workers'[w].pc = "get"
                /\ Len(result_queue') = Len(result_queue) + 1
                /\ result_queue'[Len(result_queue')].file_name = workers[w].item]_vars

\* a failure record for a PDF can only come from an exception; the one worker
\* that put it holds the next item
C4_Witness ==
    /\ num_workers = 1
    /\ \E i \in DOMAIN result_queue :
          /\ result_queue[i].status = "failure"
          /\ get_file_type(result_queue[i].file_name) = "pdf"
    /\ workers[1].pc = "work"

(***************************************************************************)
(* Properties of the orchestrator (Spec)                                   *)
(***************************************************************************)
StoredNames == Names(LoadFiles(STATE_FILE))

Running == pc \in { "stage", "pool", "commit", "handler", "cleanup" }

\* a step from a resting orchestrator that leaves the source directory alone:
\* a call of main
IsMainCall == Resting /\ source_dir' = source_dir

\* C5: over any sequence of scans and runs an entry's status changes only
\* from pending to completed or from pending to failed; a completed or failed
\* entry keeps its status for ever, so each entry changes at most once.
C5_StatusChangesAtMostOnce ==
    [][LET old == LoadFiles(STATE_FILE)
           new == LoadFiles(STATE_FILE')
       IN  /\ Len(old) <= Len(new)
           /\ \A i \in DOMAIN old :
                 /\ new[i].name = old[i].name
                 /\ old[i].status \in { "completed", "failed" } =>
                       new[i].status = old[i].status
                 /\ old[i].status = "pending" =>
                       new[i].status \in { "pending", "completed", "failed" }]_vars

\* a later run is under way while earlier runs' verdicts stand
C5_Witness ==
    /\ pc = "stage"
    /\ \E f, g \in StoredNames :
          /\ StatusOf(f) = "completed"
          /\ StatusOf(g) = "failed"
          /\ \A i \in DOMAIN pending_tasks :
                pending_tasks[i].name # f /\ pending_tasks[i].name # g

\* C6: the names in the state file never shrink: every step keeps every
\* stored name, also of archives gone from the source directory, no name is
\* stored twice, a name enters only as pending, and a scan adds exactly the
\* names found in the source directory that were not stored.
C6_StoreOnlyGrows ==
    [][LET old == LoadFiles(STATE_FILE)
           new == LoadFiles(STATE_FILE')
       IN  /\ Names(old) \subseteq Names(new)
           /\ Len(new) = Cardinality(Names(new))
           /\ \A f \in Names(new) \ Names(old) :
                 f \in source_dir /\ StatusIn(STATE_FILE', f) = "pending"
           /\ IsMainCall => Names(new) = Names(old) \cup source_dir]_vars

\* a run scanned while a stored, completed archive is gone from the source
C6_Witness ==
    /\ pc = "stage"
    /\ \E f \in StoredNames : f \notin source_dir /\ StatusOf(f) = "completed"
    /\ \E g \in StoredNames : g \in source_dir /\ StatusOf(g) = "pending"

AllCompleted == \A f \in StoredNames : StatusOf(f) = "completed"

\* C7: main called with every stored entry completed and nothing new in the
\* source directory returns at once: nothing is staged, no pool run starts,
\* no status changes.
C7_RerunConvertsNothing ==
    [][(IsMainCall /\ STATE_FILE.exists /\ AllCompleted /\ source_dir \subseteq StoredNames) =>
          /\ pc' = "nothing_pending"
          /\ pending_tasks' = <<>>
          /\ LoadFiles(STATE_FILE') = LoadFiles(STATE_FILE)
          /\ TEMP_TAR_DIR' = TEMP_TAR_DIR
          /\ ARXIV_DIR' = ARXIV_DIR
          /\ pool_stats' = <<>>]_vars

\* the last call of main found nothing pending among completed entries
C7_Witness ==
    /\ pc = "nothing_pending"
    /\ Cardinality(StoredNames) >= 2
    /\ AllCompleted
    /\ source_dir = StoredNames

PriorityAt(i) == get_priority_from_filename(pending_tasks[i].name)

\* C8: within a run the backlog is taken in non-increasing priority order:
\* while an entry is staged or processed, every backlog entry of higher
\* priority comes earlier and has its status committed; so the archive of
\* period 2203, sequence 001 is done before that of period 2201, sequence 005
\* starts.
C8_DescendingPriorityOrder ==
    /\ \A i \in DOMAIN pending_tasks :
          pending_tasks[i].priority = PriorityAt(i)
    /\ \A i, j \in DOMAIN pending_tasks :
          i < j => PriorityAt(i) >= PriorityAt(j)
    /\ Running =>
          \A j \in DOMAIN pending_tasks :
              PriorityAt(j) > PriorityAt(task_i) =>
                  /\ j < task_i
                  /\ StatusOf(pending_tasks[j].name) \in { "completed", "failed" }
    /\ (Running /\ Current.name = TarOrder[1]
           /\ \E j \in DOMAIN pending_tasks : pending_tasks[j].name = TarOrder[2]) =>
          /\ get_priority_from_filename(TarOrder[2]) = 2203001
          /\ get_priority_from_filename(TarOrder[1]) = 2201005
          /\ StatusOf(TarOrder[2]) \in { "completed", "failed" }

C8_Witness ==
    /\ pc = "stage"
    /\ Current.name = TarOrder[1]
    /\ \E j \in DOMAIN pending_tasks : pending_tasks[j].name = TarOrder[2]
    /\ \E j \in DOMAIN pending_tasks : j > task_i /\ PriorityAt(j) = 0

\* C9: an iteration whose steps raised nothing ends with the entry completed,
\* however many items failed inside the pool run.
C9_ItemFailuresDoNotFailArchive ==
    (pc = "cleanup" /\ ~raised) => StatusOf(Current.name) = "completed"

\* every item of the archive failed, the entry is completed
C9_Witness ==
    /\ pc = "cleanup"
    /\ ~raised
    /\ pool_stats # <<>>
    /\ pool_stats[1].total_files >= 2
    /\ pool_stats[1].failed_files = pool_stats[1].total_files
    /\ StatusOf(Current.name) = "completed"

\* C10: an iteration in which a step raised ends with the entry failed in the
\* state file, and the orchestrator goes on to every remaining entry of the
\* backlog: whenever main has ended, however it ended, no stored entry is
\* left pending (the backlog was every pending entry, and a run adds none).
C10_ArchiveFailureDoesNotHaltBatch ==
    /\ (pc = "cleanup" /\ raised) => StatusOf(Current.name) = "failed"
    /\ Running =>
          \A j \in 1..(task_i - 1) :
              StatusOf(pending_tasks[j].name) \in { "completed", "failed" }
    /\ pc \in { "nothing_pending", "done", "aborted" } =>
          \A f \in StoredNames : StatusOf(f) \in { "completed", "failed" }

\* the files of one archive only: its tar and expansion in temp_tar, its
\* items in the intake area
OnlyFilesOf(name) ==
    /\ TEMP_TAR_DIR \subseteq { name }
    /\ \A it \in ARXIV_DIR : it[1] = name

\* C11: after a kill between an entry's status write (step f) and the finally
\* block, a restarted main never has that entry in its backlog, the entry
\* stays completed, and once the next pending entry is staged the two
\* directories hold nothing the killed run left.
C11_KillAfterCommitRecovers ==
    (killed_after_commit # <<>> /\ InLoop) =>
        /\ \A j \in DOMAIN pending_tasks :
               pending_tasks[j].name # killed_after_commit[1]
        /\ StatusOf(killed_after_commit[1]) = "completed"
        /\ pc \in { "pool", "commit" } => OnlyFilesOf(Current.name)

\* the run after such a kill has staged its first pending entry
C11_Witness ==
    /\ killed_after_commit # <<>>
    /\ pc = "pool"
    /\ ARXIV_DIR # {}
    /\ Current.name # killed_after_commit[1]
    /\ OnlyFilesOf(Current.name)

\* C12: every write of the state file replaces the whole file atomically:
\* whenever the process is killed the file on disk is a parseable document,
\* the complete mapping from before the write or the one after it, never an
\* empty or partial one.
C12_StateFileAlwaysParseable ==
    STATE_FILE.exists => ~STATE_FILE.torn

\* the archives that have a file in the staging workspace or the intake area
ArchivesInWorkspace == TEMP_TAR_DIR \cup { it[1] : it \in ARXIV_DIR }

WorkspaceEmpty == TEMP_TAR_DIR = {} /\ ARXIV_DIR = {}

\* C13: archives are handled strictly one after the other: the two
\* directories never hold files of two archives, the pool runs over the
\* current entry's files only, an entry is staged only when its predecessor's
\* status is committed and the directories are cleared, and the entries
\* behind the current one are untouched.
C13_StrictlySequential ==
    /\ Cardinality(ArchivesInWorkspace) <= 1
    /\ pc \in { "pool", "commit" } => OnlyFilesOf(Current.name)
    /\ (pc = "stage" /\ task_i > 1) =>
          /\ StatusOf(pending_tasks[task_i - 1].name) \in { "completed", "failed" }
          /\ WorkspaceEmpty
    /\ InLoop =>
          \A j \in (task_i + 1)..Len(pending_tasks) :
              StatusOf(pending_tasks[j].name) = "pending"

\* the second entry's pool run is about to start over its own files, the first
\* entry committed
C13_Witness ==
    /\ pc = "pool"
    /\ task_i = 2
    /\ ARXIV_DIR # {}
    /\ OnlyFilesOf(Current.name)
    /\ StatusOf(pending_tasks[1].name) = "completed"

C15_QuarantineNeverOverwrites ==
    quarantined = Cardinality(FAILED_DIR)

\* an output directory made from a file of this name
HasOutputOf(name) ==
    \E o \in OUTPUT_DIR : o.base = get_base_name(name) /\ o.of = name

\* the file is out of the intake area and once in the quarantine
MovedOnce(f) ==
    /\ f \notin SOURCE_DIR
    /\ Cardinality({ q \in FAILED_DIR : q.id = f.id }) = 1

FailuresHandled == { i \in FileIds : outcomes[i] = << "failure" >> }

\* C17: every handling of a failed item appends exactly one line to fail.log
\* and no step removes or rewrites a line: between items the log has as many
\* lines as failed items were handled, and every step keeps the lines there
\* were.
C17_OneLogLinePerFailure ==
    /\ [](AllIdle => Len(fail_log) = Cardinality(FailuresHandled))
    /\ [][/\ Len(fail_log') >= Len(fail_log)
          /\ SubSeq(fail_log', 1, Len(fail_log)) = fail_log]_vars

\* C18: an exception of the move into the quarantine or of the output cleanup
\* stays inside the failure handling: safe_move_to_failed returns False on a
\* failed move, no handler is left by an exception, the worker emits the
\* item's one "failure" record and is free for the next item.
C18_QuarantineErrorsDoNotPropagate ==
    /\ \A w \in FailWorkers :
          /\ handler[w].pc \in { "idle", "cleanup", "check", "move", "log", "emit" }
          /\ handler[w].pc # "idle" => outcomes[handler[w].file[1].id] = <<>>
          /\ (handler[w].pc = "emit" /\ handler[w].file[1] \in SOURCE_DIR) =>
                ~handler[w].ok
          /\ handler[w].pc = "emit" => ENABLED Emit(w)
    /\ \A i \in FileIds : Len(outcomes[i]) <= 1

\* an item whose move failed lies in the intake area with its "failure"
\* record emitted, while a worker handles the next failed item
C18_Witness ==
    /\ \E f \in SOURCE_DIR : outcomes[f.id] = << "failure" >>
    /\ \E w \in FailWorkers : handler[w].pc = "cleanup"

(***************************************************************************)
(* Properties of ProcessingStats (SpecStats)                               *)
(***************************************************************************)
\* C19: for all counts s of successes, f of failures and k of skipped items
\* the success rate read from a ProcessingStats is s / (s + f) * 100 when
\* s + f > 0 and 0 when s + f = 0, whatever k is; 7 successes and 3 failures
\* show as 70.00, no success and no failure as 0.00, and the read returns a
\* value in both cases.
C19_SuccessRate ==
    /\ (stat_mode = "rate" /\ rate_out = <<>>) => ENABLED ReadRate
    /\ rate_out # <<>> =>
          LET r == rate_out[1]
          IN  /\ r.den > 0
              /\ counts.s + counts.f > 0 =>
                    r.num * (counts.s + counts.f) = counts.s * 100 * r.den
              /\ counts.s + counts.f = 0 => r.num = 0
              /\ (counts.s = 7 /\ counts.f = 3) => Format2f(r) = 7000
              /\ (counts.s = 0 /\ counts.f = 0) => Format2f(r) = 0

\* the rate of 7 successes and 3 failures among skipped items has been read
C19_Witness ==
    /\ rate_out # <<>>
    /\ counts.s = 7
    /\ counts.f = 3
    /\ counts.k > 0
    /\ Format2f(rate_out[1]) = 7000

\* the four counters of a ProcessingStats
CountsOf(st) ==
    <<st.successful_files, st.failed_files, st.skipped_files, st.processed_files>>

IsPercentile(v, q, p) ==
    LET srt  == Sorted(q)
        rank == p * (Len(q) - 1)
        k    == rank \div 100
        up   == IF k + 2 <= Len(q) THEN k + 2 ELSE k + 1
    IN  /\ v.den > 0
        /\ 100 * (v.num - srt[k + 1] * v.den)
              = (rank % 100) * (srt[up] - srt[k + 1]) * v.den

\* C21: the central range read from a ProcessingStats is (0, 0) when fewer than
\* 2 durations are recorded and otherwise the 10th and the 90th percentile of
\* the duration list; for the durations 1, 2, ..., 10 its lower bound is
\* above the minimum 1 and its upper bound below the maximum 10.
C21_CentralRange ==
    /\ (stat_mode = "range" /\ range_out = <<>>) => ENABLED ReadRange
    /\ range_out # <<>> =>
          LET q  == acc_a.processing_times
              lo == range_out[1][1]
              hi == range_out[1][2]
          IN  /\ Len(q) < 2 => (lo.num = 0 /\ hi.num = 0)
              /\ Len(q) >= 2 => (IsPercentile(lo, q, 10) /\ IsPercentile(hi, q, 90))
              /\ q = [i \in 1..10 |-> i] =>
                    (lo.num > 1 * lo.den /\ hi.num < 10 * hi.den)

\* the central range of the durations 1, 2, ..., 10 has been read: 1.9 to 9.1
C21_Witness ==
    /\ range_out # <<>>
    /\ acc_a.processing_times = [i \in 1..10 |-> i]
    /\ range_out[1] = << [num |-> 19, den |-> 10], [num |-> 91, den |-> 10] >>

\* an outcome record whose time the collection records
Measured(r) == r.status = "success" \/ (r.status = "failure" /\ r.time > 0)

\* q is the beginning of r
IsPrefix(q, r) == Len(q) <= Len(r) /\ SubSeq(r, 1, Len(q)) = q

\* C26: the duration list of a ProcessingStats only grows at its end; after
\* any number of collected outcome records its length is the number of
\* success records plus the number of failure records with a non-zero time;
\* a skipped record and a failure record with time zero add no entry.
C26_DurationListAppendOnly ==
    /\ [](stat_mode = "collect" =>
            /\ Len(acc_a.processing_times)
                  = Len(SelectSeq(SubSeq(sample, 1, acc_i), Measured))
            /\ Len(acc_b.processing_times)
                  = Len(SelectSeq(SubSeq(arrival, 1, acc_i), Measured)))
    /\ [][/\ IsPrefix(acc_a.processing_times, acc_a'.processing_times)
          /\ IsPrefix(acc_b.processing_times, acc_b'.processing_times)
          /\ (acc_i' = acc_i + 1 /\ ~Measured(sample[acc_i']))
                => acc_a'.processing_times = acc_a.processing_times
          /\ (acc_i' = acc_i + 1 /\ Measured(sample[acc_i']))
                => acc_a'.processing_times
                      = Append(acc_a.processing_times, sample[acc_i'].time)]_vars

\* a skipped record, a failure with time zero and a success have been
\* collected, one duration is recorded
C26_Witness ==
    /\ stat_mode = "collect"
    /\ acc_i = 3
    /\ \E i, j, k \in 1..3 :
          /\ sample[i].status = "skipped"
          /\ sample[j] = [status |-> "failure", time |-> 0]
          /\ sample[k].status = "success"
    /\ Len(acc_a.processing_times) = 1

\* a file whose type is out of scope for conversion: a PDF or an unsupported type
OutOfScope(name) == get_file_type(name) # "tex"

\* C27: for every item that is a PDF or of a type that is neither PDF nor TeX
\* archive, the worker emits a skipped outcome with elapsed time zero and
\* nothing else: no worker runs the converter chain or the failure handling
\* on it, it stays in the intake area, it is not quarantined and no fail.log
\* line names it.
C27_OutOfScopeSkippedUntouched ==
    /\ [](\A name \in FailNames, e \in Elapsed :
             OutOfScope(name) =>
                worker_result(name, "none", e)
                   = [file_name |-> name, status |-> "skipped", time |-> 0])
    /\ [](\A f \in SOURCE_DIR :
             OutOfScope(f.name) =>
                /\ outcomes[f.id] \in { <<>>, <<"skipped">> }
                /\ ~Held(f))
    /\ [](\A q \in FAILED_DIR : ~OutOfScope(<<"x", q.target.suffix>>))
    /\ [](\A i \in DOMAIN fail_log : ~OutOfScope(fail_log[i].filename))
    /\ [][\A f \in SOURCE_DIR :
             (OutOfScope(f.name) /\ outcomes'[f.id] # outcomes[f.id]) =>
                /\ outcomes'[f.id] = <<"skipped">>
                /\ f \in SOURCE_DIR'
                /\ UNCHANGED <<SOURCE_DIR, OUTPUT_DIR, FAILED_DIR, fail_log, quarantined>>]_vars

\* a PDF and a file of an unsupported type have been skipped and lie in the
\* intake area, while a failed TeX archive of the same run is in quarantine
C27_Witness ==
    /\ \E f, g \in SOURCE_DIR :
          /\ get_file_type(f.name) = "pdf"
          /\ get_file_type(g.name) = "unknown"
          /\ outcomes[f.id] = <<"skipped">>
          /\ outcomes[g.id] = <<"skipped">>
    /\ FAILED_DIR # {}
    /\ fail_log # <<>>

(***************************************************************************)
(* Further properties of one process_files run (SpecPool)                  *)
(***************************************************************************)
OutcomeCount(st) == st.successful_files + st.failed_files + st.skipped_files

Unclaimed == { f \in PoolFiles : InList(f) /\ taken[f] = 0 }

\* C29: sentinels are enqueued only after the collection has ended: in an
\* uninterrupted run no sentinel is in the task queue and no worker has taken
\* one (and exited) while an item is unclaimed or an outcome uncollected;
\* exactly N sentinels are enqueued for N workers, and a worker takes at most
\* one: taking it ends the worker.
C29_SentinelsAfterCollection ==
    /\ []((SentinelsIn(file_queue) > 0 \/ Exited # {}) =>
             /\ main_pc \in { "join", "returned" }
             /\ ~interrupted =>
                   /\ loop_i = Len(file_list)
                   /\ Unclaimed = {}
                   /\ result_queue = <<>>
                   /\ \A w \in DOMAIN workers : workers[w].pc # "work")
    /\ [](main_pc \in { "join", "returned" } =>
             SentinelsIn(file_queue) + Cardinality(Exited) = num_workers)
    /\ [][/\ SentinelsIn(file_queue') > SentinelsIn(file_queue) =>
                /\ main_pc = "collect"
                /\ SentinelsIn(file_queue) = 0
                /\ SentinelsIn(file_queue') = num_workers
          /\ SentinelsIn(file_queue') < SentinelsIn(file_queue) =>
                /\ SentinelsIn(file_queue') = SentinelsIn(file_queue) - 1
                /\ Cardinality(Exited') = Cardinality(Exited) + 1
          /\ \A w \in Exited : w \in Exited']_vars

\* in an uninterrupted run of two workers over two items one worker has taken
\* its sentinel, the other sentinel is still in the queue
C29_Witness ==
    /\ ~interrupted
    /\ num_workers = 2
    /\ Len(file_list) = 2
    /\ Cardinality(Exited) = 1
    /\ SentinelsIn(file_queue) = 1

ReturnedCleanly ==
    /\ main_pc = "returned"
    /\ Len(workers) = num_workers
    /\ Exited = DOMAIN workers
    /\ stats.processed_files = Len(file_list)
    /\ stats.end_time # 0

\* C28: for any item list and worker count N >= 1, if every converter call
\* returns and no worker dies, then under fair scheduling process_files
\* terminates: all N workers take a sentinel and exit by themselves, none is
\* forcibly terminated, and the finalized stats are returned.
C28_TerminatesUnderFairScheduling ==
    /\ [](~ENABLED JoinTimeout)
    /\ [](\A w \in DOMAIN workers : workers[w].pc \in { "get", "work", "exited" })
    /\ <>(num_workers = 0 \/ ReturnedCleanly)

\* an undisturbed run of two workers over two items has returned
C28_Witness ==
    /\ num_workers = 2
    /\ Len(file_list) = 2
    /\ ReturnedCleanly

(***************************************************************************)
(* Exit status, persistence failures and the throughput monitor            *)
(***************************************************************************)
\* C22: when main returns after its loop, the batch CLI exits with code 0 if
\* every item of every archive it processed succeeded, and with a non-zero
\* code if at least one item failed.
C22_ExitCodeReflectsItemFailures ==
    [][(pc = "cleanup" /\ pc' = "done") =>
          /\ ~items_failed => exit_code(pc') = 0
          /\ items_failed => exit_code(pc') # 0]_vars

\* C23: a failure to write or re-read the state file while an entry's status
\* is committed does not abort the batch: from the status step and from its
\* error handler main goes on to clear the workspace and to the next pending
\* entry, and no exception ends main.
C23_PersistenceFailureDoesNotAbort ==
    [][(pc \in { "commit", "handler" }) =>
          (/\ pc' \in { "commit", "handler", "cleanup" }
           /\ pending_tasks' = pending_tasks
           /\ task_i' = task_i)]_vars

\* C24: the throughput monitor and the orchestrator never block each other
\* and a failing monitor stays by itself: at every position of the
\* per-archive loop the orchestrator's step can be taken whatever the monitor
\* is doing, a monitor that woke up can always finish its sample, and a step
\* of the monitor (also one that ends in a caught or an uncaught exception)
\* leaves the orchestrator's position, every entry's status, the workspace and
\* the run's ProcessingStats as they are.
MonitorActs ==
    /\ monitor \in { "sleep", "sample" }
    /\ monitor' \in { "sleep", "sample", "dead" }
    /\ monitor' # monitor

C24_MonitorNeverInterferes ==
    /\ [](/\ pc = "stage" => ENABLED Stage
          /\ pc = "pool" => ENABLED RunPool
          /\ pc = "commit" => ENABLED Commit
          /\ pc = "handler" => ENABLED Handler
          /\ pc = "cleanup" => ENABLED Cleanup
          /\ monitor = "sample" => ENABLED MonitorSample)
    /\ [][MonitorActs =>
             UNCHANGED <<pc, STATE_FILE, pending_tasks, task_i, raised, pool_stats,
                         items_failed, TEMP_TAR_DIR, ARXIV_DIR, poolVars,
                         statVars>>]_vars

\* the monitor thread has died of an exception raised while it wrote its
\* [ERROR] line, and the orchestrator is about to store the status of its
\* second entry
C24_Witness ==
    /\ monitor = "dead"
    /\ speed_log = <<>>
    /\ pc = "commit"
    /\ task_i = 2

(***************************************************************************)
(* Converter timeouts, restarts and retries                                *)
(***************************************************************************)
\* the failure handling of an item whose converter call timed out
TimedOut(w) == handler[w].pc # "idle" /\ handler[w].timed_out

\* C31: a converter call that exceeds its timeout is a failure of the item,
\* not an abort: the worker goes through the failure handling (never left by
\* an exception), the item is out of the intake area and in the quarantine
\* once the move has returned True, the worker then emits the item's one
\* record, a "failure" whose time is the time measured since the worker took
\* the item (at least the timeout), and is free for the next item.
C31_TimeoutIsFailureNotAbort ==
    /\ [](\A w \in FailWorkers :
            TimedOut(w) =>
               /\ handler[w].pc \in { "cleanup", "check", "move", "log", "emit" }
               /\ outcomes[handler[w].file[1].id] = <<>>
               /\ (handler[w].pc = "emit" /\ handler[w].ok) =>
                      MovedOnce(handler[w].file[1])
               /\ handler[w].pc = "emit" => ENABLED Emit(w))
    /\ [][\A w \in FailWorkers :
             (TimedOut(w) /\ handler'[w] # handler[w] /\ handler[w].pc = "emit") =>
                LET id == handler[w].file[1].id
                IN  /\ handler'[w] = IdleHandler
                    /\ outcomes'[id] = << "failure" >>
                    /\ measured'[id] = << Measure(now - handler[w].start) >>
                    /\ now - handler[w].start >= LATEXML_TIMEOUT]_vars

\* an item whose converter call timed out is in the quarantine with its one
\* failure record, and the worker pool has converted another item since
C31_Witness ==
    /\ AllIdle
    /\ \E i, j \in FileIds :
          /\ i < j
          /\ outcomes[i] = << "failure" >>
          /\ measured[i] = << Measure(LATEXML_TIMEOUT) >>
          /\ \E q \in FAILED_DIR : q.id = i
          /\ outcomes[j] = << "success" >>

\* the entry in work is pending in the state file
CurrentPending == StatusOf(Current.name) = "pending"

StoredEntry(file, filename) ==
    SelectSeq(LoadFiles(file), LAMBDA e : e.name = filename)

\* C33: no run selects an entry whose stored status is failed, and no step
\* of the program takes an entry out of failed: only the operator's reset to
\* pending does; the run after a reset has the entry in its backlog as the
\* store holds it, with the path and the priority of its first discovery.
C33_FailedStaysUntilReset ==
    /\ [][pending_tasks' # pending_tasks =>
             \A j \in DOMAIN pending_tasks' :
                StatusOf(pending_tasks'[j].name) # "failed"]_vars
    /\ [][\A f \in TarNames :
             (StatusOf(f) = "failed" /\ StatusIn(STATE_FILE', f) # "failed") =>
                /\ Resting
                /\ pc' = pc
                /\ f \in retried'
                /\ StatusIn(STATE_FILE', f) = "pending"]_vars
    /\ [][(Resting /\ pc' = "stage") =>
             \A f \in retried :
                StatusOf(f) = "pending" =>
                   \E j \in DOMAIN pending_tasks' :
                      /\ << pending_tasks'[j] >> = StoredEntry(STATE_FILE, f)
                      /\ pending_tasks'[j].priority = NewEntry(f).priority
                      /\ pending_tasks'[j].path = NewEntry(f).path]_vars

\* an entry that had failed and was reset is in its pool run again
C33_Witness ==
    /\ pc = "pool"
    /\ Current.name \in retried
    /\ ARXIV_DIR # {}

(***************************************************************************)
(* Priorities and the order of the backlog (SpecPriority)                  *)
(***************************************************************************)
\* the number whose decimal digits are those of the period followed by those
\* of the sequence number
Concatenated(filename) ==
    DigitsToInt(filename.period) * 10 ^ Len(filename.seq) + DigitsToInt(filename.seq)

\* where the state file holds a name
StoredAt(filename) ==
    CHOOSE i \in DOMAIN STATE_FILE.files : STATE_FILE.files[i].name = filename

\* C34: the stored priority of a name with the two numeric groups is the
\* integer of their concatenated digits, 2201005 for period 2201 and
\* sequence 005, and 0 for any other name; while an entry is in work every
\* backlog entry of higher priority comes before it, and entries of equal
\* priority, those of priority 0 among them, come in the order in which the
\* store holds them, which is the order of their insertion.
C34_PriorityAndStableOrder ==
    /\ \A i \in DOMAIN STATE_FILE.files :
          LET e == STATE_FILE.files[i]
          IN  /\ MatchesPattern(e.name) => e.priority = Concatenated(e.name)
              /\ ~MatchesPattern(e.name) => e.priority = 0
              /\ e.name = TarOrder[1] => e.priority = 2201005
    /\ \A i, j \in DOMAIN pending_tasks :
          /\ pending_tasks[i].priority > pending_tasks[j].priority => i < j
          /\ (i < j /\ pending_tasks[i].priority = pending_tasks[j].priority) =>
                StoredAt(pending_tasks[i].name) < StoredAt(pending_tasks[j].name)

\* the second of two entries that match no pattern is staged, after an entry
\* of higher priority
C34_Witness ==
    /\ pc = "stage"
    /\ task_i = 3
    /\ pending_tasks[1].priority > 0
    /\ pending_tasks[2].priority = 0
    /\ ~MatchesPattern(pending_tasks[2].name)
    /\ ~MatchesPattern(pending_tasks[3].name)

(***************************************************************************)
(* Isolation of item failures (SpecFail)                                   *)
(***************************************************************************)
\* an output directory made from a file of the archive in work that was
\* converted successfully
OutputOfSuccess(o) ==
    \E g \in SOURCE_DIR : g.name = o.of /\ outcomes[g.id] = << "success" >>

\* C35: the failure handling of an item leaves the output of every other item
\* of the same run that succeeded as it is: the output cleanup and the
\* quarantine of a failed file remove or change no output directory made
\* from a different file, also when the two file names differ only in their
\* extension.
C35_FailureIsolatedFromSiblings ==
    [][\A w \in FailWorkers :
          (handler[w].pc \in { "cleanup", "check", "move", "log" }
              /\ handler'[w] # handler[w]) =>
             \A o \in OUTPUT_DIR :
                (o.of # handler[w].file[1].name /\ OutputOfSuccess(o)) =>
                   o \in OUTPUT_DIR']_vars

(***************************************************************************)
(* Staging of an archive (SpecStage)                                       *)
(***************************************************************************)
\* C36: when staging is through, every regular file of the expanded archive is
\* in the intake area as a work item of its own, wherever it lay in the
\* archive: at the top level, in one of several top-level directories
\* holding files of equal names, or more than one directory deep.
C36_StagingLosesNoFile ==
    pc = "pool" =>
       \A m \in tar_members : \E i \in ARXIV_DIR : i.member = m

(***************************************************************************)
(* Shutdown of the monitor (SpecShutdown)                                  *)
(***************************************************************************)
MonitorOver == monitor \in ThreadEnded \cup { "off" }

\* C37: once main has set the stop signal, the monitor appends at most one
\* more line to the speed log and then ends; main's wait for it is bounded:
\* the join returns, and main with it, whether or not the monitor has seen
\* the signal.
C37_MonitorStopsAfterSignal ==
    /\ [](after_stop <= 1)
    /\ [](pc = "join" => ENABLED JoinReturns)
    /\ (stop_event ~> MonitorOver)
    /\ (pc = "join" ~> pc = "done")

\* main has returned; the monitor, not yet ended by the exit of the process,
\* has appended its one line after the signal
C37_Witness ==
    /\ pc = "done"
    /\ stop_event
    /\ after_stop = 1
    /\ monitor = "returned"
    /\ speed_log # <<>>

(***************************************************************************)
(* Who writes the state file (SpecMonitor)                                 *)
(***************************************************************************)
\* the steps of the orchestrator that store something: the scan of
\* initialize_state, the status of step f and the status of the handler
StoreWriter == Resting \/ pc \in { "commit", "handler" }

\* a step of the pool run: step e returns or raises
PoolRunActs == pc = "pool" /\ pc' # "pool"

\* C38: the state file is written by the orchestrator alone, in its discovery
\* scan and its status commits: no pool run with its workers and quarantine
\* steps and no tick of the monitor changes it, and a pool run leaves the
\* path, the status and the priority of every entry as they were.
C38_StoreWrittenByOrchestratorOnly ==
    [][/\ (STATE_FILE' # STATE_FILE) => StoreWriter
       /\ PoolRunActs => (LoadFiles(STATE_FILE') = LoadFiles(STATE_FILE))
       /\ MonitorActs => (STATE_FILE' = STATE_FILE)]_vars

\* a pool run has quarantined an item while the monitor logged a sample, and
\* the entry of the archive is as the scan stored it
C38_Witness ==
    /\ pc = "commit"
    /\ pool_stats # <<>>
    /\ pool_stats[1].failed_files > 0
    /\ speed_log # <<>>
    /\ StoredEntry(STATE_FILE, Current.name) = << NewEntry(Current.name) >>

(***************************************************************************)
(* The scan and the stored entries (SpecScan)                              *)
(***************************************************************************)
\* a call of main: the scan, up to the backlog
ScanActs ==
    /\ Resting
    /\ pc' \in { "stage", "nothing_pending" }
    /\ source_dir' = source_dir
    /\ source_dir_path' = source_dir_path

\* C39: a scan leaves every stored entry as it is, with its path, its status
\* and its priority, also when a file of its name is found under another
\* path or is not found any more; what the scan adds are entries for names
\* the store did not have.
C39_ScanKeepsStoredEntries ==
    [][ScanActs =>
          LET old == LoadFiles(STATE_FILE)
              new == LoadFiles(STATE_FILE')
          IN  /\ Len(new) >= Len(old)
              /\ \A i \in DOMAIN old : new[i] = old[i]
              /\ \A i \in (Len(old) + 1)..Len(new) :
                    /\ new[i].name \notin Names(old)
                    /\ new[i] = NewEntry(new[i].name)]_vars

\* a scan of the renamed directory has stored a new archive with its path
\* there; the entry of a completed archive, found there too, has the path of
\* its first discovery
C39_Witness ==
    /\ pc = "stage"
    /\ task_i = 1
    /\ Current.path.dir = source_dir_path
    /\ \E i \in DOMAIN LoadFiles(STATE_FILE) :
          LET e == LoadFiles(STATE_FILE)[i]
          IN  /\ e.status = "completed"
              /\ e.name \in source_dir
              /\ e.path.dir # source_dir_path

(***************************************************************************)
(* An archive that yields no work item (SpecScan)                          *)
(***************************************************************************)
\* C40: when staging has left the intake area empty, step e starts no pool
\* (there are no ProcessingStats of a run) and writes no report, no item
\* fails, and step f marks the entry completed, not failed.
C40_EmptyIntakeCompletesWithoutPool ==
    [][/\ (pc = "pool" /\ ARXIV_DIR = {}) =>
             /\ ~ReportWritten'
             /\ ARXIV_DIR' = {}
             /\ UNCHANGED <<STATE_FILE, items_failed>>
       /\ (pc = "commit" /\ ~ReportWritten) =>
             /\ StatusIn(STATE_FILE', Current.name) = "completed"
             /\ ~ReportWritten']_vars

\* an archive that yielded nothing is marked completed, with no report
C40_Witness ==
    /\ pc = "cleanup"
    /\ ~raised
    /\ ~ReportWritten
    /\ ARXIV_DIR = {}
    /\ StatusOf(Current.name) = "completed"


====
